---- MODULE Spec2Model ----
(***************************************************************************)
(* Model of the TRS pricer: the path simulator, the cash flow calculator,  *)
(* the valuation and exposure engine, the orchestrator (run_simulation)    *)
(* and the decision engine.                                                *)
(*                                                                         *)
(* The repository holds two copies of the engines: the package             *)
(* trs_pricer/core/*.py and the flat modules cash_flows.py, valuation.py,  *)
(* simulation.py next to main.py.  Operators modelled from the flat        *)
(* modules carry the prefix legacy_.                                       *)
(*                                                                         *)
(* Floating point numbers are modelled as exact rationals [n, d] in lowest *)
(* terms, extended with the IEEE values nan (0/0), inf (1/0) and -inf      *)
(* (-1/0) that numpy produces on division by zero.  Rounding error is not  *)
(* modelled.  exp() in the GBM step and sqrt() are not rational: the GBM   *)
(* growth factor exp(drift + diffusion * Z) is an input drawn from a set   *)
(* of positive rationals, one per (path, period) cell.                     *)
(***************************************************************************)
EXTENDS Integers, Sequences, FiniteSets, TLC

VARIABLES pc, op, args, ret

vars == <<pc, op, args, ret>>

(***************************************************************************)
(* Bounds of the model.                                                    *)
(***************************************************************************)
MaxPaths == 2
MaxPeriods == 3
MaxCells == 6
MaxNpvs == 5
MaxRows == 4
MaxRepeatCells == 2

(***************************************************************************)
(* Exact rational arithmetic with IEEE non-finite values.                  *)
(***************************************************************************)
Abs(x) == IF x < 0 THEN -x ELSE x

Sgn(x) == IF x > 0 THEN 1 ELSE IF x < 0 THEN -1 ELSE 0

RECURSIVE GCD(_, _)
GCD(a, b) == IF b = 0 THEN a ELSE GCD(b, a % b)

LCM(a, b) == (a \div GCD(a, b)) * b

Norm(n, d) ==
    IF d = 0 THEN [n |-> Sgn(n), d |-> 0]
    ELSE LET g == GCD(Abs(n), Abs(d))
             s == IF d < 0 THEN -1 ELSE 1
         IN  [n |-> s * (Abs(n) \div g) * Sgn(n), d |-> Abs(d) \div g]

R(n, d) == Norm(n, d)

RI(k) == [n |-> k, d |-> 1]

Zero == RI(0)

One == RI(1)

NaN == [n |-> 0, d |-> 0]

PInf == [n |-> 1, d |-> 0]

IsNaN(a) == a.d = 0 /\ a.n = 0

IsFinite(a) == a.d # 0

RNeg(a) == [n |-> 0 - a.n, d |-> a.d]

RAdd(a, b) ==
    IF IsNaN(a) \/ IsNaN(b) THEN NaN
    ELSE IF a.d = 0 /\ b.d = 0 THEN (IF a.n = b.n THEN a ELSE NaN)
    ELSE IF a.d = 0 THEN a
    ELSE IF b.d = 0 THEN b
    ELSE LET l == LCM(a.d, b.d)
         IN  Norm(a.n * (l \div a.d) + b.n * (l \div b.d), l)

RSub(a, b) == RAdd(a, RNeg(b))

RMul(a, b) ==
    IF IsNaN(a) \/ IsNaN(b) THEN NaN
    ELSE IF a.d = 0 \/ b.d = 0
         THEN (IF a.n = 0 \/ b.n = 0 THEN NaN
               ELSE [n |-> Sgn(a.n) * Sgn(b.n), d |-> 0])
    ELSE IF a.n = 0 \/ b.n = 0 THEN Zero
    ELSE LET g1 == GCD(Abs(a.n), b.d)
             g2 == GCD(Abs(b.n), a.d)
         IN  Norm((a.n \div g1) * (b.n \div g2), (a.d \div g2) * (b.d \div g1))

\* Division as numpy's float64 does it: x/0 is nan or +-inf, never an error.
RDiv(a, b) ==
    IF IsNaN(a) \/ IsNaN(b) THEN NaN
    ELSE IF b.d = 0 THEN (IF a.d = 0 THEN NaN ELSE Zero)
    ELSE IF b.n = 0 THEN (IF a.n = 0 THEN NaN ELSE [n |-> Sgn(a.n), d |-> 0])
    ELSE RMul(a, [n |-> Sgn(b.n) * b.d, d |-> Abs(b.n)])

RLt(a, b) ==
    IF IsNaN(a) \/ IsNaN(b) THEN FALSE
    ELSE IF a.d = 0 /\ b.d = 0 THEN a.n < b.n
    ELSE IF a.d = 0 THEN a.n < 0
    ELSE IF b.d = 0 THEN b.n > 0
    ELSE LET l == LCM(a.d, b.d)
         IN  a.n * (l \div a.d) < b.n * (l \div b.d)

RLe(a, b) == ~IsNaN(a) /\ ~IsNaN(b) /\ (a = b \/ RLt(a, b))

RGt(a, b) == RLt(b, a)

RGe(a, b) == RLe(b, a)

RECURSIVE RPow(_, _)
RPow(a, k) == IF k = 0 THEN One ELSE RMul(a, RPow(a, k - 1))

\* int(x) of a finite float: truncation toward zero.
IntTrunc(a) == IF a.n >= 0 THEN a.n \div a.d ELSE 0 - ((0 - a.n) \div a.d)

RECURSIVE RSum(_)
RSum(s) == IF s = <<>> THEN Zero ELSE RAdd(Head(s), RSum(Tail(s)))

(***************************************************************************)
(* Cash flow calculator: trs_pricer/core/cash_flows.py                     *)
(***************************************************************************)
\* Variant: the appreciation taken relative to the end price.
calculate_total_return_leg_on_end_price(period_start_price, period_end_price, dividend_yield, notional, payment_frequency) ==
    RAdd(RMul(RDiv(RSub(period_end_price, period_start_price),
                   period_end_price), notional),
         RMul(RDiv(dividend_yield, RI(payment_frequency)), notional))

calculate_total_return_leg(period_start_price, period_end_price, dividend_yield, notional, payment_frequency) ==
    LET price_appreciation ==
            RMul(RDiv(RSub(period_end_price, period_start_price),
                      period_start_price), notional)
        dividend_payment ==
            RMul(RDiv(dividend_yield, RI(payment_frequency)), notional)
    IN  RAdd(price_appreciation, dividend_payment)

calculate_funding_leg(period_start_price, period_end_price, effective_funding_rate, notional, payment_frequency) ==
    RMul(RDiv(effective_funding_rate, RI(payment_frequency)), notional)

\* cash_flows.py (flat module): the funding amount minus the depreciation.
legacy_calculate_funding_leg(period_start_price, period_end_price, effective_funding_rate, notional, payment_frequency) ==
    LET funding_amount ==
            RMul(RDiv(effective_funding_rate, RI(payment_frequency)), notional)
        diff == RSub(period_start_price, period_end_price)
        depreciation ==
            RMul(RDiv(IF RGt(Zero, diff) THEN Zero ELSE diff,
                      period_start_price), notional)
    IN  RSub(funding_amount, depreciation)

\* One DataFrame per path; a DataFrame is the sequence of its rows.
CashFlowRow(path, i, params) ==
    LET start == path[i]
        end == path[i + 1]
        total_return == calculate_total_return_leg(start, end,
                            params.dividend_yield, params.notional,
                            params.payment_frequency)
        funding == calculate_funding_leg(start, end,
                            params.effective_funding_rate, params.notional,
                            params.payment_frequency)
    IN  [period |-> i,
         period_start_price |-> start,
         period_end_price |-> end,
         total_return_cash_flow |-> total_return,
         net_funding_cash_flow |-> funding,
         net_cash_flow |-> RSub(funding, total_return)]

calculate_cash_flows(price_paths, params) ==
    [s \in 1..Len(price_paths) |->
        [i \in 1..(Len(price_paths[1]) - 1) |->
            CashFlowRow(price_paths[s], i, params)]]

\* cash_flows.py (flat module): rows without a period column, built with the
\* flat module's funding leg.
LegacyCashFlowRow(path, t, params) ==
    LET p_start == path[t]
        p_end == path[t + 1]
        total_return == calculate_total_return_leg(p_start, p_end,
                            params.dividend_yield, params.notional,
                            params.payment_frequency)
        net_funding == legacy_calculate_funding_leg(p_start, p_end,
                            params.effective_funding_rate, params.notional,
                            params.payment_frequency)
    IN  [period_start_price |-> p_start,
         period_end_price |-> p_end,
         total_return_cash_flow |-> total_return,
         net_funding_cash_flow |-> net_funding,
         net_cash_flow |-> RSub(net_funding, total_return)]

legacy_calculate_cash_flows(price_paths, params) ==
    [i \in 1..Len(price_paths) |->
        [t \in 1..(Len(price_paths[1]) - 1) |->
            LegacyCashFlowRow(price_paths[i], t, params)]]

(***************************************************************************)
(* Valuation and exposure engine: trs_pricer/core/valuation.py             *)
(***************************************************************************)
\* (1 + period_rate) ** (-k)
DiscountFactor(period_rate, k) == RDiv(One, RPow(RAdd(One, period_rate), k))

_discount_cash_flows(cash_flows, period_rate, start_period) ==
    IF Len(cash_flows) = 0 THEN Zero
    ELSE RSum([i \in 1..Len(cash_flows) |->
                 RMul(cash_flows[i],
                      DiscountFactor(period_rate, start_period + i - 1))])

\* Variant: the first flow left undiscounted (periods counted from 0).
calculate_npv_from_zero(cash_flows_series, benchmark_rate, payment_frequency) ==
    IF Len(cash_flows_series) = 0 THEN Zero
    ELSE _discount_cash_flows(cash_flows_series,
                              RDiv(benchmark_rate, RI(payment_frequency)), 0)

calculate_npv(cash_flows_series, benchmark_rate, payment_frequency) ==
    IF Len(cash_flows_series) = 0 THEN Zero
    ELSE _discount_cash_flows(cash_flows_series,
                              RDiv(benchmark_rate, RI(payment_frequency)), 1)

NetCashFlows(cash_flows_df) ==
    [i \in 1..Len(cash_flows_df) |-> cash_flows_df[i].net_cash_flow]

\* df.iloc[k:] for k >= 0 (0-based k): the rows k+1, k+2, ...
ILocFrom(seq, k) == SubSeq(seq, k + 1, Len(seq))

calculate_marked_to_market_value(cash_flows_df, benchmark_rate, payment_frequency, current_period) ==
    IF current_period > Len(cash_flows_df) THEN Zero
    ELSE LET future_flows ==
                 ILocFrom(NetCashFlows(cash_flows_df), current_period - 1)
         IN  IF Len(future_flows) = 0 THEN Zero
             ELSE _discount_cash_flows(future_flows,
                      RDiv(benchmark_rate, RI(payment_frequency)), 1)

\* valuation.py (flat module): the flows after row current_period.
legacy_calculate_marked_to_market_value(cash_flows_df, benchmark_rate, payment_frequency, current_period) ==
    IF current_period >= Len(cash_flows_df) THEN Zero
    ELSE LET future == ILocFrom(NetCashFlows(cash_flows_df), current_period)
         IN  RSum([i \in 1..Len(future) |->
                     RDiv(future[i],
                          RPow(RAdd(One, RDiv(benchmark_rate,
                                              RI(payment_frequency))), i))])

\* Variant: no floor at zero.
Maximum0_unfloored(x) == x

\* np.maximum(0, x): nan propagates.
Maximum0(x) == IF IsNaN(x) THEN NaN ELSE IF RLt(x, Zero) THEN Zero ELSE x

\* np.mean of a non-empty vector; nan (with a warning) for an empty one.
Mean(s) == IF Len(s) = 0 THEN NaN ELSE RDiv(RSum(s), RI(Len(s)))

\* np.sqrt is kept symbolic: the value whose square is v.
Sqrt(v) == [sqrt_of |-> v]

\* timedelta arithmetic in whole days from the wall clock reading `now`.
PeriodDate(now, payment_frequency, p) ==
    now + IntTrunc(RDiv(RI(365), RI(payment_frequency))) * p

calculate_exposure_metrics(cash_flows_list, params, now) ==
    IF Len(cash_flows_list) = 0
    THEN [epe_profile |-> <<>>, dates |-> <<>>]
    ELSE LET num_periods == Len(cash_flows_list[1])
             mtm_matrix ==
                 [s \in 1..Len(cash_flows_list) |->
                    [p \in 1..num_periods |->
                       calculate_marked_to_market_value(cash_flows_list[s],
                           params.benchmark_rate, params.payment_frequency, p)]]
         IN  [epe_profile |->
                 [p \in 1..num_periods |->
                    Mean([s \in 1..Len(cash_flows_list) |->
                            Maximum0(mtm_matrix[s][p])])],
              dates |->
                 [p \in 1..num_periods |->
                    PeriodDate(now, params.payment_frequency, p)]]

\* valuation.py (flat module): the profile and the dates run over t = 0..n, the
\* dates are year offsets t / payment_frequency.
legacy_calculate_exposure_metrics(cash_flows_list, params) ==
    LET n_periods == IF Len(cash_flows_list) > 0 THEN Len(cash_flows_list[1]) ELSE 0
        mtm ==
            [i \in 1..Len(cash_flows_list) |->
               [t \in 1..(n_periods + 1) |->
                  legacy_calculate_marked_to_market_value(cash_flows_list[i],
                      params.benchmark_rate, params.payment_frequency, t - 1)]]
    IN  [epe_profile |->
            [t \in 1..(n_periods + 1) |->
               Mean([i \in 1..Len(cash_flows_list) |-> Maximum0(mtm[i][t])])],
         dates |->
            [t \in 1..(n_periods + 1) |-> RDiv(RI(t - 1), RI(params.payment_frequency))]]

\* Insertion of x into an ascending sequence; sorting by repeated insertion.
RECURSIVE InsertSorted(_, _)
InsertSorted(x, s) ==
    IF s = <<>> THEN <<x>>
    ELSE IF RLe(x, Head(s)) THEN <<x>> \o s
    ELSE <<Head(s)>> \o InsertSorted(x, Tail(s))

RECURSIVE Sorted(_)
Sorted(s) == IF s = <<>> THEN <<>> ELSE InsertSorted(Head(s), Sorted(Tail(s)))

\* np.percentile(a, q), default method "linear", for a vector of finite
\* numbers: the value at the virtual index q/100 * (N - 1) of the sorted
\* vector, interpolated between its two neighbours. For an empty vector the
\* value is nan where the numpy release returns one (see PercentileRaises).
Percentile(a, q) ==
    IF Len(a) = 0 THEN NaN
    ELSE LET srt == Sorted(a)
             N == Len(a)
             virtual_index == RDiv(RI(q * (N - 1)), RI(100))
             lo == IntTrunc(virtual_index)
             hi == IF lo + 1 > N - 1 THEN N - 1 ELSE lo + 1
             gamma == RSub(virtual_index, RI(lo))
         IN  RAdd(srt[lo + 1], RMul(RSub(srt[hi + 1], srt[lo + 1]), gamma))

\* Whether np.percentile raises: never for a non-empty vector; for an empty one
\* it depends on the numpy release (nan with a warning, or IndexError from the
\* index -1 of the empty sorted vector), so both outcomes are possible.
PercentileRaises(a) == IF Len(a) = 0 THEN BOOLEAN ELSE {FALSE}

\* Variant: the sample standard deviation (ddof = 1).
Std_sample(a) ==
    LET m == Mean(a)
    IN  Sqrt(RDiv(RSum([i \in 1..Len(a) |->
                          RMul(RSub(a[i], m), RSub(a[i], m))]),
                  RI(Len(a) - 1)))

\* np.std(a): population standard deviation (ddof = 0).
Std(a) ==
    LET m == Mean(a)
    IN  Sqrt(Mean([i \in 1..Len(a) |->
                     RMul(RSub(a[i], m), RSub(a[i], m))]))

\* df[col].sum(): pandas skips the nan entries of the column (skipna=True).
ColumnSum(df, col) ==
    RSum(SelectSeq([i \in 1..Len(df) |-> df[i][col]], LAMBDA x : ~IsNaN(x)))

PERCENTILES == {5, 25, 50, 75, 95}

\* f"{p}th"
PercentileKey(q) ==
    CASE q = 5 -> "5th" [] q = 25 -> "25th" [] q = 50 -> "50th"
      [] q = 75 -> "75th" [] q = 95 -> "95th"

\* df.iloc[p] of a frame with fewer than p + 1 rows raises IndexError.
AggregateRaises(all_simulated_cash_flows) ==
    /\ Len(all_simulated_cash_flows) > 0
    /\ \E s \in 1..Len(all_simulated_cash_flows) :
          Len(all_simulated_cash_flows[s]) < Len(all_simulated_cash_flows[1])

aggregate_results(all_simulated_cash_flows, npv_list) ==
    LET n == Len(all_simulated_cash_flows)
        mean_periodic_flows ==
            IF n > 0
            THEN [p \in 1..Len(all_simulated_cash_flows[1]) |->
                    Mean([s \in 1..n |->
                            all_simulated_cash_flows[s][p].net_cash_flow])]
            ELSE <<>>
        mean_total_return_leg ==
            IF n > 0
            THEN Mean([s \in 1..n |->
                         ColumnSum(all_simulated_cash_flows[s],
                                   "total_return_cash_flow")])
            ELSE Zero
        mean_funding_leg ==
            IF n > 0
            THEN Mean([s \in 1..n |->
                         ColumnSum(all_simulated_cash_flows[s],
                                   "net_funding_cash_flow")])
            ELSE Zero
    IN  [npv_mean |-> Mean(npv_list),
         npv_std |-> Std(npv_list),
         npv_percentiles |->
             [k \in {PercentileKey(q) : q \in PERCENTILES} |->
                 Percentile(npv_list,
                            CHOOSE q \in PERCENTILES : PercentileKey(q) = k)],
         mean_periodic_net_cash_flows |-> mean_periodic_flows,
         total_return_leg_total |-> mean_total_return_leg,
         funding_leg_total |-> mean_funding_leg]

(***************************************************************************)
(* Path simulator: trs_pricer/core/simulation.py                           *)
(***************************************************************************)
None == "None"

\* The factors exp(drift_term + diffusion_term * Z) a cell can take.
GrowthSeq == <<R(1, 2), One, RI(2)>>

Growth == {GrowthSeq[i] : i \in 1..Len(GrowthSeq)}

\* np.random.seed(seed) fixes the stream: the k-th draw is a function of seed.
SeededGrowth(seed, num_simulations, num_periods) ==
    [s \in 1..num_simulations |->
        [t \in 1..num_periods |->
            GrowthSeq[((seed + (s - 1) * num_periods + t) % Len(GrowthSeq)) + 1]]]

\* Variant: tenor * payment_frequency rounded up instead of truncated.
NumPeriods_ceil(tenor, payment_frequency) ==
    LET x == RMul(tenor, RI(payment_frequency))
    IN  IF RI(IntTrunc(x)) = x THEN IntTrunc(x) ELSE IntTrunc(x) + 1

NumPeriods(tenor, payment_frequency) ==
    IntTrunc(RMul(tenor, RI(payment_frequency)))

\* The exception simulate_price_paths ends with, or None.
simulate_price_paths_raises(tenor, payment_frequency, num_simulations) ==
    IF payment_frequency = 0 THEN "ZeroDivisionError"
    ELSE LET num_periods == NumPeriods(tenor, payment_frequency)
         IN  IF num_simulations < 0 \/ num_periods + 1 < 0 THEN "ValueError"
             ELSE IF num_periods + 1 = 0 THEN "IndexError"
             ELSE None

RECURSIVE PathPrice(_, _, _)
PathPrice(initial_price, growth_row, t) ==
    IF t = 1 THEN initial_price
    ELSE RMul(PathPrice(initial_price, growth_row, t - 1), growth_row[t - 1])

simulate_price_paths(initial_price, tenor, volatility, payment_frequency, num_simulations, benchmark_rate, growth) ==
    LET num_periods == NumPeriods(tenor, payment_frequency)
    IN  [s \in 1..num_simulations |->
            [t \in 1..(num_periods + 1) |->
                PathPrice(initial_price, growth[s], t)]]

(***************************************************************************)
(* Orchestrator: trs_pricer/core/trs_pricer.py                             *)
(* The append to the developer's debug log in the "agent log" regions is   *)
(* taken to succeed; it writes no value the pipeline reads.                *)
(***************************************************************************)
DEFAULT_BENCHMARK_RATE == R(1, 20)

REQUIRED == {"ticker", "notional", "tenor", "payment_frequency", "num_simulations"}

\* str(ticker).upper().strip() on the tickers of the model.
UpperStrip(ticker) ==
    CASE ticker = " aapl " -> "AAPL"
      [] ticker = "  " -> ""
      [] OTHER -> ticker

\* Variant: zero is accepted.
_validate_positive_raises_negative_only(value) == RLt(value, Zero)

\* _validate_positive raises unless float(value) > 0 (nan passes: nan <= 0 is false).
_validate_positive_raises(value) == RLe(value, Zero)

_validate_non_negative_raises(value) == RLt(value, Zero)

\* Variant: a payer desk is charged no funding spread.
_get_param_or_fetch_by_desk(params, key, fetched_value) ==
    IF /\ key = "funding_spread"
       /\ "desk_position" \in DOMAIN params
       /\ params["desk_position"] = "payer"
    THEN Zero
    ELSE IF key \in DOMAIN params THEN params[key] ELSE fetched_value

\* _get_param_or_fetch: the override, validated, or else what the fetcher returns.
_get_param_or_fetch(params, key, fetched_value) ==
    IF key \in DOMAIN params THEN params[key] ELSE fetched_value

desk_position_of(params) ==
    IF "desk_position" \in DOMAIN params THEN params["desk_position"] ELSE "receiver"

\* The field the ValueError of get_user_inputs names, or None.
get_user_inputs_raises(params) ==
    IF REQUIRED \ DOMAIN params # {} THEN "Missing required parameters"
    ELSE IF desk_position_of(params) \notin {"payer", "receiver"} THEN "desk_position"
    ELSE IF UpperStrip(params["ticker"]) = "" THEN "ticker"
    ELSE IF _validate_positive_raises(params["notional"]) THEN "notional"
    ELSE IF _validate_positive_raises(params["tenor"]) THEN "tenor"
    ELSE IF _validate_positive_raises(params["payment_frequency"])
         THEN "payment_frequency"
    ELSE IF _validate_positive_raises(params["num_simulations"])
         THEN "num_simulations"
    ELSE IF "initial_price" \in DOMAIN params
            /\ _validate_positive_raises(params["initial_price"])
         THEN "initial_price"
    ELSE IF "dividend_yield" \in DOMAIN params
            /\ _validate_non_negative_raises(params["dividend_yield"])
         THEN "dividend_yield"
    ELSE IF "volatility" \in DOMAIN params
            /\ _validate_positive_raises(params["volatility"])
         THEN "volatility"
    ELSE IF "funding_spread" \in DOMAIN params
            /\ _validate_non_negative_raises(params["funding_spread"])
         THEN "funding_spread"
    ELSE IF "benchmark_rate" \in DOMAIN params
            /\ _validate_non_negative_raises(params["benchmark_rate"])
         THEN "benchmark_rate"
    ELSE None

\* The field names the message of that ValueError contains: every missing
\* required parameter, or the one field that failed its check.
get_user_inputs_names(params) ==
    IF REQUIRED \ DOMAIN params # {} THEN REQUIRED \ DOMAIN params
    ELSE {get_user_inputs_raises(params)} \ {None}

get_user_inputs(params, fetched) ==
    LET benchmark_rate ==
            _get_param_or_fetch(params, "benchmark_rate", DEFAULT_BENCHMARK_RATE)
        funding_spread ==
            _get_param_or_fetch(params, "funding_spread", fetched.funding_spread)
    IN  [ticker |-> UpperStrip(params["ticker"]),
         notional |-> params["notional"],
         tenor |-> params["tenor"],
         payment_frequency |-> IntTrunc(params["payment_frequency"]),
         num_simulations |-> IntTrunc(params["num_simulations"]),
         initial_price |->
             _get_param_or_fetch(params, "initial_price", fetched.initial_price),
         dividend_yield |->
             _get_param_or_fetch(params, "dividend_yield", fetched.dividend_yield),
         volatility |->
             _get_param_or_fetch(params, "volatility", fetched.volatility),
         funding_spread |-> funding_spread,
         benchmark_rate |-> benchmark_rate,
         effective_funding_rate |-> RAdd(benchmark_rate, funding_spread),
         desk_position |-> desk_position_of(params)]

AnyNaN(v) == \E i \in 1..Len(v) : IsNaN(v[i])

\* The 1-based index of the first entry of v equal to x.
FirstIndex(v, x) ==
    CHOOSE i \in 1..Len(v) : v[i] = x /\ \A j \in 1..(i - 1) : v[j] # x

\* np.max of a non-empty vector: nan if any entry is nan.
NpMax(v) ==
    IF AnyNaN(v) THEN NaN
    ELSE LET i == CHOOSE k \in 1..Len(v) : \A j \in 1..Len(v) : RLe(v[j], v[k])
         IN  v[i]

\* Variant: the last maximum instead of the first.
NpArgMax_last(v) ==
    IF AnyNaN(v) THEN FirstIndex(v, NaN) - 1
    ELSE LET m == NpMax(v)
         IN  (CHOOSE i \in 1..Len(v) :
                 v[i] = m /\ \A j \in (i + 1)..Len(v) : v[j] # m) - 1

\* np.argmax (0-based): the first nan if there is one, else the first maximum.
NpArgMax(v) ==
    IF AnyNaN(v) THEN FirstIndex(v, NaN) - 1
    ELSE FirstIndex(v, NpMax(v)) - 1

\* The exception run_simulation ends with, or None.
run_simulation_raises(params, fetched) ==
    IF get_user_inputs_raises(params) # None THEN "ValueError"
    ELSE LET resolved_params == get_user_inputs(params, fetched)
         IN  simulate_price_paths_raises(resolved_params.tenor,
                 resolved_params.payment_frequency,
                 resolved_params.num_simulations)

\* The engines run_simulation has invoked, in order, when it ends with an
\* exception: none when get_user_inputs raises, the path simulator when it does.
run_simulation_invoked(params, fetched) ==
    IF get_user_inputs_raises(params) # None THEN <<>>
    ELSE <<"simulate_price_paths">>

\* run_simulation for a request that raises nothing: the summary, with the
\* price grid and the ledgers it was computed from.
run_simulation(params, fetched, growth, now) ==
    LET resolved_params == get_user_inputs(params, fetched)
        price_paths ==
            simulate_price_paths(resolved_params.initial_price,
                resolved_params.tenor, resolved_params.volatility,
                resolved_params.payment_frequency,
                resolved_params.num_simulations,
                resolved_params.benchmark_rate, growth)
        cash_flows_list == calculate_cash_flows(price_paths, resolved_params)
        npv_list ==
            [s \in 1..Len(cash_flows_list) |->
                calculate_npv(NetCashFlows(cash_flows_list[s]),
                              resolved_params.benchmark_rate,
                              resolved_params.payment_frequency)]
        exposure == calculate_exposure_metrics(cash_flows_list, resolved_params, now)
        epe_profile == exposure.epe_profile
        aggregated == aggregate_results(cash_flows_list, npv_list)
    IN  [price_paths |-> price_paths,
         cash_flows_list |-> cash_flows_list,
         npv_list |-> npv_list,
         figures |-> 4,
         summary_results |->
            [npv_mean |-> aggregated.npv_mean,
             npv_std |-> aggregated.npv_std,
             npv_percentiles |-> aggregated.npv_percentiles,
             mean_periodic_net_cash_flows |->
                 aggregated.mean_periodic_net_cash_flows,
             total_return_leg_total |-> aggregated.total_return_leg_total,
             funding_leg_total |-> aggregated.funding_leg_total,
             ticker |-> resolved_params.ticker,
             notional |-> resolved_params.notional,
             tenor |-> resolved_params.tenor,
             payment_frequency |-> resolved_params.payment_frequency,
             num_simulations |-> resolved_params.num_simulations,
             initial_price |-> resolved_params.initial_price,
             dividend_yield |-> resolved_params.dividend_yield,
             volatility |-> resolved_params.volatility,
             funding_spread |-> resolved_params.funding_spread,
             benchmark_rate |-> resolved_params.benchmark_rate,
             effective_funding_rate |-> resolved_params.effective_funding_rate,
             epe_profile |-> epe_profile,
             epe_dates |-> exposure.dates,
             peak_epe |->
                 IF Len(epe_profile) > 0 THEN NpMax(epe_profile) ELSE Zero,
             peak_epe_period |->
                 IF Len(epe_profile) > 0 THEN NpArgMax(epe_profile) + 1 ELSE 0]]

(***************************************************************************)
(* Decision engine: trs_pricer/decision/decision_engine.py                 *)
(***************************************************************************)
\* Variant: strict comparisons against the thresholds.
evaluate_metric_strict(value, threshold_green, threshold_yellow) ==
    IF RGt(threshold_green, threshold_yellow)
    THEN IF RGt(value, threshold_green) THEN "green"
         ELSE IF RGt(value, threshold_yellow) THEN "yellow"
         ELSE "red"
    ELSE IF RLt(value, threshold_green) THEN "green"
         ELSE IF RLt(value, threshold_yellow) THEN "yellow"
         ELSE "red"

evaluate_metric(value, threshold_green, threshold_yellow) ==
    IF RGt(threshold_green, threshold_yellow)
    THEN IF RGe(value, threshold_green) THEN "green"
         ELSE IF RGe(value, threshold_yellow) THEN "yellow"
         ELSE "red"
    ELSE IF RLe(value, threshold_green) THEN "green"
         ELSE IF RLe(value, threshold_yellow) THEN "yellow"
         ELSE "red"

\* trs_pricer/config.py
DECISION_NPV_GREEN_THRESHOLD == R(1, 100)

DECISION_NPV_YELLOW_THRESHOLD == R(1, 200)

DECISION_VAR_GREEN_THRESHOLD == R(2, 5)

\* Variant: a yellow VaR threshold below the green one.
DECISION_VAR_YELLOW_THRESHOLD_below_green == R(7, 20)

DECISION_VAR_YELLOW_THRESHOLD == R(11, 20)

DECISION_EPE_GREEN_THRESHOLD == R(1, 10)

DECISION_EPE_YELLOW_THRESHOLD == R(1, 5)

DEFAULT_VOLATILITY == R(1, 4)

DEFAULT_TENOR == One

\* The defaults min_scale = 0.5 and max_scale = 4.0 of the two scale factors.
MIN_SCALE == R(1, 2)

MAX_SCALE == RI(4)

\* A float is a rational [n, d] or, where a root has no rational value, the
\* number coef * base ** (num / den) with coef > 0 and base > 0.
IsRat(x) == "n" \in DOMAIN x

IsSquare(n) == \E r \in 0..n : r * r = n

ISqrt(n) == CHOOSE r \in 0..n : r * r = n

\* x ** (num / den) for a rational x >= 0.
PowFrac(x, num, den) ==
    IF x = Zero \/ x = One THEN x
    ELSE IF num = 1 /\ den = 2 /\ IsSquare(x.n) /\ IsSquare(x.d)
         THEN R(ISqrt(x.n), ISqrt(x.d))
    ELSE [coef |-> One, base |-> x, num |-> num, den |-> den]

\* c * y for a rational c >= 0.
Scaled(c, y) ==
    IF IsRat(y) THEN RMul(c, y)
    ELSE IF c = Zero THEN Zero
    ELSE [y EXCEPT !.coef = RMul(c, y.coef)]

\* x ** p < q ** k for rationals x, q >= 0 and integers p, k >= 1.
PowLess(x, p, q, k) ==
    IF RLe(x, One) /\ RLe(One, q) THEN ~(x = One /\ q = One)
    ELSE IF RLe(q, One) /\ RLe(One, x) THEN FALSE
    ELSE RLt(RPow(x, p), RPow(q, k))

\* a < b for two floats of which at most one is not rational, and that one is
\* compared with a positive rational.
Less(a, b) ==
    IF IsRat(a) /\ IsRat(b) THEN RLt(a, b)
    ELSE IF IsRat(b) THEN PowLess(a.base, a.num, RDiv(b, a.coef), a.den)
    ELSE PowLess(RDiv(a, b.coef), b.den, b.base, b.num)

\* Python's min(a, b) and max(a, b): the first argument unless the second is
\* strictly smaller (larger).
PyMin(a, b) == IF Less(b, a) THEN b ELSE a

PyMax(a, b) == IF Less(a, b) THEN b ELSE a

\* Variant: the tenor enters linearly instead of through its square root.
calculate_var_scale_factor_linear(volatility, tenor) ==
    PyMax(MIN_SCALE, PyMin(MAX_SCALE,
        RMul(RDiv(volatility, DEFAULT_VOLATILITY), RDiv(tenor, DEFAULT_TENOR))))

calculate_var_scale_factor(volatility, tenor) ==
    LET vol_ratio ==
            IF RGt(DEFAULT_VOLATILITY, Zero)
            THEN RDiv(volatility, DEFAULT_VOLATILITY) ELSE One
        tenor_ratio ==
            IF RGt(DEFAULT_TENOR, Zero)
            THEN PowFrac(RDiv(tenor, DEFAULT_TENOR), 1, 2) ELSE One
        scale_factor == Scaled(vol_ratio, tenor_ratio)
    IN  PyMax(MIN_SCALE, PyMin(MAX_SCALE, scale_factor))

calculate_epe_scale_factor(volatility, tenor) ==
    LET vol_ratio ==
            IF RGt(DEFAULT_VOLATILITY, Zero)
            THEN RDiv(volatility, DEFAULT_VOLATILITY) ELSE One
        tenor_ratio ==
            IF RGt(DEFAULT_TENOR, Zero)
            THEN PowFrac(RDiv(tenor, DEFAULT_TENOR), 7, 10) ELSE One
        scale_factor == Scaled(vol_ratio, tenor_ratio)
    IN  PyMax(MIN_SCALE, PyMin(MAX_SCALE, scale_factor))

\* dict.get(key, default)
Get(d, key, default) == IF key \in DOMAIN d THEN d[key] ELSE default

\* abs(x)
RAbs(a) == IF RLt(a, Zero) THEN RNeg(a) ELSE a

extract_key_metrics(summary_results) ==
    LET notional == Get(summary_results, "notional", One)
        npv_mean == Get(summary_results, "npv_mean", Zero)
        npv_percentiles == Get(summary_results, "npv_percentiles", <<>>)
        var_5th == Get(npv_percentiles, "5th", Zero)
        peak_epe == Get(summary_results, "peak_epe", Zero)
    IN  [npv_pct |-> IF RGt(notional, Zero) THEN RDiv(npv_mean, notional) ELSE Zero,
         var_pct |-> IF RGt(notional, Zero) THEN RDiv(RAbs(var_5th), notional) ELSE Zero,
         epe_pct |-> IF RGt(notional, Zero) THEN RDiv(peak_epe, notional) ELSE Zero]

\* "x in issues"
Has(issues, x) == \E i \in 1..Len(issues) : issues[i] = x

\* Variant: the spread increase not divided by the tenor.
SpreadAdjustment_without_tenor(notional, tenor, funding_spread, npv_mean) ==
    LET delta_npv == RSub(RMul(DECISION_NPV_GREEN_THRESHOLD, notional), npv_mean)
        delta_spread_bps == RMul(RDiv(delta_npv, notional), RI(10000))
    IN  [delta_bps |-> delta_spread_bps,
         new_spread |-> PyMax(Zero, RAdd(funding_spread, RDiv(delta_spread_bps, RI(10000))))]

\* The body of "if notional > 0 and tenor > 0" under "npv_too_low".
SpreadAdjustment(notional, tenor, funding_spread, npv_mean) ==
    LET target_npv == RMul(DECISION_NPV_GREEN_THRESHOLD, notional)
        delta_npv == RSub(target_npv, npv_mean)
        delta_spread_bps == RMul(RDiv(delta_npv, RMul(notional, tenor)), RI(10000))
        new_spread == RAdd(funding_spread, RDiv(delta_spread_bps, RI(10000)))
    IN  [delta_bps |-> delta_spread_bps,
         new_spread |-> PyMax(Zero, new_spread)]

\* The body of "if current_var > 0" under "var_too_high".
NotionalReduction(notional, current_var, target_var_pct) ==
    LET target_var == RMul(target_var_pct, notional)
        reduction_pct == RMul(RDiv(RSub(current_var, target_var), current_var), RI(100))
        new_notional == RMul(notional, RSub(One, RDiv(reduction_pct, RI(100))))
    IN  [reduction_pct |-> PyMax(Zero, PyMin(RI(100), reduction_pct)),
         new_notional |-> PyMax(Zero, new_notional)]

\* Variant: the collateral percentage reported without the floor at 0.
CollateralRequirement_unfloored(notional, current_epe, target_epe_pct) ==
    LET collateral_pct ==
            RMul(RDiv(RSub(current_epe, RMul(target_epe_pct, notional)), notional), RI(100))
    IN  [collateral_pct |-> collateral_pct,
         collateral_amount |-> PyMax(Zero, RMul(notional, RDiv(collateral_pct, RI(100))))]

\* The body of "if notional > 0" under "epe_too_high".
CollateralRequirement(notional, current_epe, target_epe_pct) ==
    LET target_epe == RMul(target_epe_pct, notional)
        collateral_pct == RMul(RDiv(RSub(current_epe, target_epe), notional), RI(100))
        collateral_amount == RMul(notional, RDiv(collateral_pct, RI(100)))
    IN  [collateral_pct |-> PyMax(Zero, collateral_pct),
         collateral_amount |-> PyMax(Zero, collateral_amount)]

\* The dict of adjustments: a function on the keys that were set.
calculate_adjustments(summary_results, issues) ==
    LET notional == Get(summary_results, "notional", One)
        tenor == Get(summary_results, "tenor", DEFAULT_TENOR)
        funding_spread == Get(summary_results, "funding_spread", Zero)
        npv_mean == Get(summary_results, "npv_mean", Zero)
        volatility == Get(summary_results, "volatility", DEFAULT_VOLATILITY)
        var_scale_factor == calculate_var_scale_factor(volatility, tenor)
        epe_scale_factor == calculate_epe_scale_factor(volatility, tenor)
        var_green_threshold == Scaled(DECISION_VAR_GREEN_THRESHOLD, var_scale_factor)
        epe_green_threshold == Scaled(DECISION_EPE_GREEN_THRESHOLD, epe_scale_factor)
        metrics == extract_key_metrics(summary_results)
        current_var == RMul(metrics.var_pct, notional)
        current_epe == RMul(metrics.epe_pct, notional)
        keys ==
            {k \in {"spread_adjustment"} :
                Has(issues, "npv_too_low") /\ RGt(notional, Zero) /\ RGt(tenor, Zero)}
            \cup {k \in {"notional_reduction"} :
                Has(issues, "var_too_high") /\ RGt(current_var, Zero)}
            \cup {k \in {"collateral_requirement"} :
                Has(issues, "epe_too_high") /\ RGt(notional, Zero)}
    IN  [k \in keys |->
            CASE k = "spread_adjustment" ->
                    SpreadAdjustment(notional, tenor, funding_spread, npv_mean)
              [] k = "notional_reduction" ->
                    NotionalReduction(notional, current_var, var_green_threshold)
              [] k = "collateral_requirement" ->
                    CollateralRequirement(notional, current_epe, epe_green_threshold)]

status_priority(s) == CASE s = "red" -> 3 [] s = "yellow" -> 2 [] s = "green" -> 1

\* Variant: the counterparty exposure status left out of the overall status.
OverallStatus_without_epe(npv_status, var_status, epe_status) ==
    IF status_priority(var_status) > status_priority(npv_status)
    THEN var_status ELSE npv_status

\* max([npv_status, var_status, epe_status], key=status_priority): the first
\* of the three with the largest priority.
OverallStatus(npv_status, var_status, epe_status) ==
    LET list == <<npv_status, var_status, epe_status>>
        i == CHOOSE k \in 1..3 :
                /\ \A j \in 1..3 : status_priority(list[j]) <= status_priority(list[k])
                /\ \A j \in 1..(k - 1) : status_priority(list[j]) < status_priority(list[k])
    IN  list[i]

\* Variant: a yellow metric raises no issue.
IdentifyIssues_red_only(npv_status, var_status, epe_status) ==
    (IF npv_status = "red" THEN <<"npv_too_low">> ELSE <<>>)
    \o (IF var_status = "red" THEN <<"var_too_high">> ELSE <<>>)
    \o (IF epe_status = "red" THEN <<"epe_too_high">> ELSE <<>>)

IdentifyIssues(npv_status, var_status, epe_status) ==
    (IF npv_status # "green" THEN <<"npv_too_low">> ELSE <<>>)
    \o (IF var_status # "green" THEN <<"var_too_high">> ELSE <<>>)
    \o (IF epe_status # "green" THEN <<"epe_too_high">> ELSE <<>>)

evaluate_trade(summary_results) ==
    LET metrics == extract_key_metrics(summary_results)
        volatility == Get(summary_results, "volatility", DEFAULT_VOLATILITY)
        tenor == Get(summary_results, "tenor", DEFAULT_TENOR)
        var_scale_factor == calculate_var_scale_factor(volatility, tenor)
        epe_scale_factor == calculate_epe_scale_factor(volatility, tenor)
        var_green_threshold == Scaled(DECISION_VAR_GREEN_THRESHOLD, var_scale_factor)
        var_yellow_threshold == Scaled(DECISION_VAR_YELLOW_THRESHOLD, var_scale_factor)
        epe_green_threshold == Scaled(DECISION_EPE_GREEN_THRESHOLD, epe_scale_factor)
        epe_yellow_threshold == Scaled(DECISION_EPE_YELLOW_THRESHOLD, epe_scale_factor)
        npv_status == evaluate_metric(metrics.npv_pct, DECISION_NPV_GREEN_THRESHOLD,
                                      DECISION_NPV_YELLOW_THRESHOLD)
        var_status == evaluate_metric(metrics.var_pct, var_green_threshold,
                                      var_yellow_threshold)
        epe_status == evaluate_metric(metrics.epe_pct, epe_green_threshold,
                                      epe_yellow_threshold)
        issues == IdentifyIssues(npv_status, var_status, epe_status)
    IN  [overall_status |-> OverallStatus(npv_status, var_status, epe_status),
         metrics |-> metrics,
         statuses |-> [npv |-> npv_status, var |-> var_status, epe |-> epe_status],
         issues |-> issues,
         adjustments |->
             IF issues # <<>> THEN calculate_adjustments(summary_results, issues)
             ELSE <<>>,
         thresholds |->
             [npv |-> [green |-> DECISION_NPV_GREEN_THRESHOLD,
                       yellow |-> DECISION_NPV_YELLOW_THRESHOLD],
              var |-> [green |-> var_green_threshold, yellow |-> var_yellow_threshold],
              epe |-> [green |-> epe_green_threshold, yellow |-> epe_yellow_threshold]],
         volatility_info |->
             [volatility |-> volatility, tenor |-> tenor,
              baseline_volatility |-> DEFAULT_VOLATILITY,
              baseline_tenor |-> DEFAULT_TENOR,
              var_scale_factor |-> var_scale_factor,
              epe_scale_factor |-> epe_scale_factor]]

(***************************************************************************)
(* Input domains.                                                          *)
(***************************************************************************)
Prices == {RI(50), RI(100), RI(200)}

DividendYields == {Zero, R(2, 25)}

FundingRates == {R(13, 200), R(1, 10)}

Notionals == {RI(1000), RI(1000000)}

Frequencies == {1, 2, 4}

BenchmarkRates == {Zero, R(1, 10)}

FlowValues == {RI(-100), Zero, RI(50)}

NpvValues == {RI(-100), Zero, RI(50), RI(100), RI(200)}

Tenors == {R(1, 2), One, R(3, 2)}

Volatilities == {R(1, 4)}

\* seed: Optional[int] as a sequence, <<>> for None.
Seeds == {<<>>, <<1>>, <<2>>}

\* Readings of the wall clock (datetime.now()), in days.
Clock == {0, 1}

SeqsUpTo(S, k) == UNION {[1..j -> S] : j \in 0..k}

Series == SeqsUpTo(FlowValues, MaxPeriods)

ListFlowValues == {RI(-100), RI(50)}

ListSeries == SeqsUpTo(ListFlowValues, MaxPeriods)

\* A ledger whose net cash flows are the given series.
Frame(series) ==
    [i \in 1..Len(series) |->
        [period |-> i,
         total_return_cash_flow |-> RNeg(series[i]),
         net_funding_cash_flow |-> Zero,
         net_cash_flow |-> series[i]]]

RECURSIVE TotalRows(_)
TotalRows(list) ==
    IF list = <<>> THEN 0 ELSE Len(Head(list)) + TotalRows(Tail(list))

LedgerLists ==
    {[s \in 1..Len(l) |-> Frame(l[s])] :
        l \in {x \in SeqsUpTo(ListSeries, MaxPaths) : TotalRows(x) <= MaxRows}}

\* Price grids of at most MaxCells entries.
Shapes ==
    {sh \in (1..MaxPaths) \X (0..MaxPeriods) : sh[1] * (sh[2] + 1) <= MaxCells}

PriceGrids == UNION {[1..sh[1] -> [1..(sh[2] + 1) -> Prices]] : sh \in Shapes}

\* Grids with a period start price that is zero or negative.
NonPositiveGrids ==
    {<<<<Zero, RI(100)>>>>, <<<<Zero, Zero>>>>, <<<<RI(-100), RI(100)>>>>,
     <<<<RI(100), Zero, RI(100)>>>>, <<<<RI(100), RI(200)>>, <<Zero, RI(50)>>>>}

GrowthFor(seed, num_simulations, num_periods) ==
    IF seed = <<>>
    THEN [1..num_simulations -> [1..num_periods -> Growth]]
    ELSE {SeededGrowth(seed[1], num_simulations, num_periods)}

\* Direct calls of simulate_price_paths: the valid ones, and one valid call
\* with a single argument made zero or negative.
BaseSimulationCall ==
    [initial_price |-> RI(100), tenor |-> One, volatility |-> R(1, 4),
     payment_frequency |-> 1, num_simulations |-> 1, seed |-> <<>>]

InvalidSimulationCalls ==
    {[BaseSimulationCall EXCEPT !.initial_price = Zero],
     [BaseSimulationCall EXCEPT !.initial_price = RI(-100)],
     [BaseSimulationCall EXCEPT !.volatility = Zero],
     [BaseSimulationCall EXCEPT !.volatility = R(-1, 4)],
     [BaseSimulationCall EXCEPT !.tenor = Zero],
     [BaseSimulationCall EXCEPT !.tenor = RI(-1)],
     [BaseSimulationCall EXCEPT !.payment_frequency = 0],
     [BaseSimulationCall EXCEPT !.payment_frequency = -1],
     [BaseSimulationCall EXCEPT !.num_simulations = 0],
     [BaseSimulationCall EXCEPT !.num_simulations = -1]}

SimulationCalls ==
    [initial_price : Prices, tenor : Tenors, volatility : Volatilities,
     payment_frequency : Frequencies, num_simulations : 1..MaxPaths, seed : Seeds]
    \cup InvalidSimulationCalls

\* The growth factors of a call that returns: with volatility 0 and no
\* benchmark rate the exponent is 0 and every factor is exactly 1.
SimulationGrowth(c) ==
    LET num_periods == NumPeriods(c.tenor, c.payment_frequency)
    IN  IF c.volatility = Zero
        THEN {[s \in 1..c.num_simulations |-> [t \in 1..num_periods |-> One]]}
        ELSE GrowthFor(c.seed, c.num_simulations, num_periods)

TermsSet ==
    [notional : {RI(1000)}, dividend_yield : DividendYields,
     effective_funding_rate : {R(3, 25)}, payment_frequency : {1, 2}]
    \cup
    {[notional |-> RI(1000000), dividend_yield |-> Zero,
      effective_funding_rate |-> R(13, 200), payment_frequency |-> 4]}

DiscountParams == [benchmark_rate : BenchmarkRates, payment_frequency : {1, 2}]

Range(f) == {f[i] : i \in DOMAIN f}

\* Non-empty NPV lists in any order, with at most one repeated value.
NpvLists ==
    {v \in SeqsUpTo(NpvValues, MaxNpvs) :
        Len(v) > 0 /\ Cardinality(Range(v)) >= Len(v) - 1}

\* aggregate_results is called with one NPV per ledger: either the ledgers of
\* LedgerLists with their NPVs at a zero rate, or one single-period ledger per
\* NPV of an NPV list, or the ledgers calculate_cash_flows produces for a
\* price grid, or no path at all.
AggregateInputs ==
    {[all_simulated_cash_flows |-> l,
      npv_list |-> [s \in 1..Len(l) |-> calculate_npv(NetCashFlows(l[s]), Zero, 1)]] :
        l \in {x \in LedgerLists : Len(x) > 0}}
    \cup
    {[all_simulated_cash_flows |-> [s \in 1..Len(v) |-> Frame(<<v[s]>>)],
      npv_list |-> v] : v \in NpvLists}
    \cup
    {[all_simulated_cash_flows |-> calculate_cash_flows(g, t),
      npv_list |-> [s \in 1..Len(g) |->
                      calculate_npv(NetCashFlows(calculate_cash_flows(g, t)[s]),
                                    Zero, 1)]] :
        g \in PriceGrids \cup NonPositiveGrids,
        t \in {x \in TermsSet : x.notional = RI(1000)}}
    \cup
    {[all_simulated_cash_flows |-> <<>>, npv_list |-> <<>>]}

\* Requests to run_simulation: a full valid request, with overrides dropped
\* and with single fields made invalid.
FullRequests ==
    [ticker : {"AAPL"},
     notional : {One},
     tenor : Tenors,
     payment_frequency : {RI(1), RI(2)},
     num_simulations : {RI(k) : k \in 1..MaxPaths},
     initial_price : {RI(100)},
     dividend_yield : DividendYields,
     volatility : Volatilities,
     funding_spread : {R(1, 50)},
     benchmark_rate : BenchmarkRates,
     desk_position : {"payer"}]

OVERRIDES == {"initial_price", "dividend_yield", "volatility", "funding_spread",
              "benchmark_rate"}

Dropped == {{}, {"desk_position"}, {"initial_price"}, OVERRIDES, {"notional"}}

Without(params, keys) == [k \in DOMAIN params \ keys |-> params[k]]

BaseRequest ==
    [ticker |-> "AAPL", notional |-> One, tenor |-> One,
     payment_frequency |-> RI(1), num_simulations |-> RI(1),
     initial_price |-> RI(100), dividend_yield |-> Zero,
     volatility |-> R(1, 4), funding_spread |-> R(1, 50),
     benchmark_rate |-> Zero, desk_position |-> "receiver"]

SpecialRequests ==
    {[BaseRequest EXCEPT !["ticker"] = "  "],
     [BaseRequest EXCEPT !["ticker"] = " aapl "],
     [BaseRequest EXCEPT !["desk_position"] = "both"],
     [BaseRequest EXCEPT !["notional"] = Zero],
     [BaseRequest EXCEPT !["tenor"] = RI(-1)],
     [BaseRequest EXCEPT !["payment_frequency"] = Zero],
     [BaseRequest EXCEPT !["payment_frequency"] = R(1, 2)],
     [BaseRequest EXCEPT !["num_simulations"] = Zero],
     [BaseRequest EXCEPT !["initial_price"] = Zero],
     [BaseRequest EXCEPT !["dividend_yield"] = RI(-1)],
     [BaseRequest EXCEPT !["volatility"] = Zero],
     [BaseRequest EXCEPT !["funding_spread"] = RI(-1)],
     [BaseRequest EXCEPT !["benchmark_rate"] = RI(-1)]}

Requests ==
    {Without(r, d) : r \in FullRequests, d \in Dropped} \cup SpecialRequests

\* What the market data fetcher returns when asked: fetch_current_price
\* returns float(price) of whatever yfinance reports, zero included.
Fetched ==
    [initial_price : {RI(100), Zero}, dividend_yield : {Zero},
     volatility : {R(1, 4)}, funding_spread : {R(3, 200)}]

\* The fetcher is asked only for the overrides that are absent.
FetchedFor(params) ==
    IF "initial_price" \in DOMAIN params
    THEN {f \in Fetched : f.initial_price = RI(100)}
    ELSE Fetched

RunGrowth(params, fetched) ==
    IF run_simulation_raises(params, fetched) # None THEN {<<>>}
    ELSE LET r == get_user_inputs(params, fetched)
         IN  GrowthFor(<<>>, r.num_simulations,
                       NumPeriods(r.tenor, r.payment_frequency))

WithinCells(params, fetched) ==
    IF run_simulation_raises(params, fetched) # None THEN TRUE
    ELSE LET r == get_user_inputs(params, fetched)
         IN  r.num_simulations * (NumPeriods(r.tenor, r.payment_frequency) + 1)
                 <= MaxCells

MetricValues ==
    {R(-1, 100), Zero, R(1, 200), R(3, 400), R(1, 100), R(1, 10), R(3, 20),
     R(1, 5), R(1, 2)}

Thresholds == {R(1, 200), R(1, 100), R(1, 10), R(1, 5)}

ScaleVolatilities == {Zero, R(1, 4), R(1, 2), One}

ScaleTenors == {Zero, R(1, 4), R(1, 2), One, R(3, 2), RI(4)}

\* The (volatility, tenor) pairs whose two scale factors are rational: a root
\* without a rational value is clamped away.
SummaryTerms ==
    {t \in [volatility : ScaleVolatilities, tenor : ScaleTenors] :
        /\ IsRat(calculate_var_scale_factor(t.volatility, t.tenor))
        /\ IsRat(calculate_epe_scale_factor(t.volatility, t.tenor))}

\* Summaries as run_simulation returns them, reduced to the keys the decision
\* engine reads, on a notional of 1000.
Summaries ==
    {[notional |-> RI(1000), tenor |-> t.tenor, volatility |-> t.volatility,
      funding_spread |-> fs, npv_mean |-> npv,
      npv_percentiles |-> [k \in {"5th"} |-> p5], peak_epe |-> epe] :
        t \in SummaryTerms, fs \in {R(1, 50), RI(-1)},
        npv \in {RI(12), RI(5), RI(3), RI(-50)},
        p5 \in {RI(-100), RI(-500), RI(-2500), RI(300)},
        epe \in {Zero, RI(150), RI(1000)}}

\* Summaries with keys missing or without a notional.
SparseSummaries ==
    {<<>>,
     [npv_mean |-> R(1, 500)],
     [notional |-> Zero, tenor |-> One, volatility |-> R(1, 4),
      funding_spread |-> R(1, 50), npv_mean |-> RI(-50),
      npv_percentiles |-> [k \in {"5th"} |-> RI(-500)], peak_epe |-> RI(150)]}

IssueLists ==
    {<<>>, <<"npv_too_low">>, <<"var_too_high">>, <<"epe_too_high">>,
     <<"npv_too_low", "var_too_high", "epe_too_high">>}

\* calculate_adjustments is called with any issue list, on summaries at the
\* baseline terms, at the upper clamp and at a tenor of 0.
AdjustmentSummaries ==
    {x \in Summaries :
        \/ x.volatility = R(1, 4) /\ x.tenor \in {Zero, One}
        \/ x.volatility = One /\ x.tenor = RI(4)}

(***************************************************************************)
(* State machine: a caller invokes one operation of the library (pc goes   *)
(* from "idle" to "done" or "error", op/args/ret hold the call), then      *)
(* drops the result.                                                       *)
(***************************************************************************)
Init ==
    /\ pc = "idle"
    /\ op = "none"
    /\ args = <<>>
    /\ ret = <<>>

CalculateTotalReturnLeg ==
    /\ pc = "idle"
    /\ \E s \in Prices, e \in Prices, dy \in DividendYields,
          nl \in Notionals, f \in Frequencies :
           /\ pc' = "done"
           /\ op' = "calculate_total_return_leg"
           /\ args' = [period_start_price |-> s, period_end_price |-> e,
                       dividend_yield |-> dy, notional |-> nl, payment_frequency |-> f]
           /\ ret' = calculate_total_return_leg(s, e, dy, nl, f)

CalculateFundingLeg ==
    /\ pc = "idle"
    /\ \E s \in Prices, e \in Prices, r \in FundingRates,
          nl \in Notionals, f \in Frequencies :
           /\ pc' = "done"
           /\ op' = "calculate_funding_leg"
           /\ args' = [period_start_price |-> s, period_end_price |-> e,
                       effective_funding_rate |-> r, notional |-> nl,
                       payment_frequency |-> f]
           /\ ret' = calculate_funding_leg(s, e, r, nl, f)

LegacyCalculateFundingLeg ==
    /\ pc = "idle"
    /\ \E s \in Prices, e \in Prices, r \in FundingRates,
          nl \in Notionals, f \in Frequencies :
           /\ pc' = "done"
           /\ op' = "legacy_calculate_funding_leg"
           /\ args' = [period_start_price |-> s, period_end_price |-> e,
                       effective_funding_rate |-> r, notional |-> nl,
                       payment_frequency |-> f]
           /\ ret' = legacy_calculate_funding_leg(s, e, r, nl, f)

CalculateCashFlows ==
    /\ pc = "idle"
    /\ \E price_paths \in PriceGrids \cup NonPositiveGrids, params \in TermsSet :
           /\ pc' = "done"
           /\ op' = "calculate_cash_flows"
           /\ args' = [price_paths |-> price_paths, params |-> params]
           /\ ret' = calculate_cash_flows(price_paths, params)

LegacyCalculateCashFlows ==
    /\ pc = "idle"
    /\ \E price_paths \in PriceGrids, params \in TermsSet :
           /\ pc' = "done"
           /\ op' = "legacy_calculate_cash_flows"
           /\ args' = [price_paths |-> price_paths, params |-> params]
           /\ ret' = legacy_calculate_cash_flows(price_paths, params)

CalculateNpv ==
    /\ pc = "idle"
    /\ \E series \in Series, params \in DiscountParams :
           /\ pc' = "done"
           /\ op' = "calculate_npv"
           /\ args' = [cash_flows_series |-> series,
                       benchmark_rate |-> params.benchmark_rate,
                       payment_frequency |-> params.payment_frequency]
           /\ ret' = calculate_npv(series, params.benchmark_rate,
                       params.payment_frequency)

CalculateMarkedToMarketValue ==
    /\ pc = "idle"
    /\ \E series \in Series, params \in DiscountParams,
          p \in 1..(MaxPeriods + 1) :
           /\ pc' = "done"
           /\ op' = "calculate_marked_to_market_value"
           /\ args' = [cash_flows_df |-> Frame(series),
                       benchmark_rate |-> params.benchmark_rate,
                       payment_frequency |-> params.payment_frequency,
                       current_period |-> p]
           /\ ret' = calculate_marked_to_market_value(Frame(series),
                       params.benchmark_rate, params.payment_frequency, p)

LegacyCalculateMarkedToMarketValue ==
    /\ pc = "idle"
    /\ \E series \in Series, params \in DiscountParams,
          p \in 0..(MaxPeriods + 1) :
           /\ pc' = "done"
           /\ op' = "legacy_calculate_marked_to_market_value"
           /\ args' = [cash_flows_df |-> Frame(series),
                       benchmark_rate |-> params.benchmark_rate,
                       payment_frequency |-> params.payment_frequency,
                       current_period |-> p]
           /\ ret' = legacy_calculate_marked_to_market_value(Frame(series),
                       params.benchmark_rate, params.payment_frequency, p)

CalculateExposureMetrics ==
    /\ pc = "idle"
    /\ \E list \in LedgerLists, params \in DiscountParams, now \in Clock :
           /\ pc' = "done"
           /\ op' = "calculate_exposure_metrics"
           /\ args' = [cash_flows_list |-> list, params |-> params, now |-> now]
           /\ ret' = calculate_exposure_metrics(list, params, now)

LegacyCalculateExposureMetrics ==
    /\ pc = "idle"
    /\ \E list \in LedgerLists, params \in DiscountParams :
           /\ pc' = "done"
           /\ op' = "legacy_calculate_exposure_metrics"
           /\ args' = [cash_flows_list |-> list, params |-> params]
           /\ ret' = legacy_calculate_exposure_metrics(list, params)

SimulatePricePaths ==
    /\ pc = "idle"
    /\ \E c \in SimulationCalls :
         LET raised == simulate_price_paths_raises(c.tenor, c.payment_frequency,
                                                   c.num_simulations)
         IN  /\ op' = "simulate_price_paths"
             /\ IF raised # None
                THEN /\ pc' = "error"
                     /\ args' = [initial_price |-> c.initial_price, tenor |-> c.tenor,
                                 volatility |-> c.volatility,
                                 payment_frequency |-> c.payment_frequency,
                                 num_simulations |-> c.num_simulations,
                                 benchmark_rate |-> None, seed |-> c.seed,
                                 growth |-> <<>>]
                     /\ ret' = [raised |-> raised]
                ELSE /\ c.num_simulations * (NumPeriods(c.tenor, c.payment_frequency) + 1)
                            <= MaxCells
                     /\ \E growth \in SimulationGrowth(c) :
                          /\ pc' = "done"
                          /\ args' = [initial_price |-> c.initial_price,
                                      tenor |-> c.tenor, volatility |-> c.volatility,
                                      payment_frequency |-> c.payment_frequency,
                                      num_simulations |-> c.num_simulations,
                                      benchmark_rate |-> None, seed |-> c.seed,
                                      growth |-> growth]
                          /\ ret' = simulate_price_paths(c.initial_price, c.tenor,
                                      c.volatility, c.payment_frequency,
                                      c.num_simulations, None, growth)

AggregateResults ==
    /\ pc = "idle"
    /\ \E in \in AggregateInputs : \E percentile_raises \in PercentileRaises(in.npv_list) :
           /\ op' = "aggregate_results"
           /\ args' = in
           /\ IF AggregateRaises(in.all_simulated_cash_flows) \/ percentile_raises
              THEN /\ pc' = "error"
                   /\ ret' = [raised |-> "IndexError"]
              ELSE /\ pc' = "done"
                   /\ ret' = aggregate_results(in.all_simulated_cash_flows,
                                               in.npv_list)

GetUserInputs ==
    /\ pc = "idle"
    /\ \E params \in Requests :
         \E fetched \in FetchedFor(params) :
           /\ op' = "get_user_inputs"
           /\ args' = [params |-> params, fetched |-> fetched]
           /\ IF get_user_inputs_raises(params) # None
              THEN /\ pc' = "error"
                   /\ ret' = [raised |-> "ValueError",
                              field |-> get_user_inputs_raises(params)]
              ELSE /\ pc' = "done"
                   /\ ret' = get_user_inputs(params, fetched)

RunSimulation ==
    /\ pc = "idle"
    /\ \E params \in Requests, now \in Clock :
         \E fetched \in FetchedFor(params) :
           /\ WithinCells(params, fetched)
           /\ \E growth \in RunGrowth(params, fetched) :
                 /\ op' = "run_simulation"
                 /\ args' = [params |-> params, fetched |-> fetched,
                             growth |-> growth, now |-> now]
                 /\ IF run_simulation_raises(params, fetched) # None
                    THEN /\ pc' = "error"
                         /\ ret' = [raised |-> run_simulation_raises(params, fetched),
                                    field |-> get_user_inputs_raises(params),
                                    names |-> get_user_inputs_names(params),
                                    invoked |-> run_simulation_invoked(params, fetched)]
                    ELSE /\ pc' = "done"
                         /\ ret' = run_simulation(params, fetched, growth, now)

\* A second run_simulation by the caller that holds the result of the first:
\* the same request and the same market data, later on the clock. The request
\* carries no seed to the simulator (its seed argument is left at None), so the
\* shocks are whatever the generator yields next. Repeated for the runs whose
\* price grid has at most MaxRepeatCells entries.
RunSimulationAgain ==
    /\ pc = "done"
    /\ op = "run_simulation"
    /\ Len(ret.price_paths) * Len(ret.price_paths[1]) <= MaxRepeatCells
    /\ \E now \in {t \in Clock : t >= args.now} :
         \E growth \in RunGrowth(args.params, args.fetched) :
           /\ pc' = "done"
           /\ op' = "run_simulation"
           /\ args' = [params |-> args.params, fetched |-> args.fetched,
                       growth |-> growth, now |-> now]
           /\ ret' = run_simulation(args.params, args.fetched, growth, now)

EvaluateMetric ==
    /\ pc = "idle"
    /\ \E value \in MetricValues, green \in Thresholds, yellow \in Thresholds :
           /\ pc' = "done"
           /\ op' = "evaluate_metric"
           /\ args' = [value |-> value, threshold_green |-> green,
                       threshold_yellow |-> yellow]
           /\ ret' = evaluate_metric(value, green, yellow)

CalculateVarScaleFactor ==
    /\ pc = "idle"
    /\ \E volatility \in ScaleVolatilities, tenor \in ScaleTenors :
           /\ pc' = "done"
           /\ op' = "calculate_var_scale_factor"
           /\ args' = [volatility |-> volatility, tenor |-> tenor]
           /\ ret' = calculate_var_scale_factor(volatility, tenor)

CalculateEpeScaleFactor ==
    /\ pc = "idle"
    /\ \E volatility \in ScaleVolatilities, tenor \in ScaleTenors :
           /\ pc' = "done"
           /\ op' = "calculate_epe_scale_factor"
           /\ args' = [volatility |-> volatility, tenor |-> tenor]
           /\ ret' = calculate_epe_scale_factor(volatility, tenor)

CalculateAdjustments ==
    /\ pc = "idle"
    /\ \E summary_results \in AdjustmentSummaries \cup SparseSummaries,
          issues \in IssueLists :
           /\ pc' = "done"
           /\ op' = "calculate_adjustments"
           /\ args' = [summary_results |-> summary_results, issues |-> issues]
           /\ ret' = calculate_adjustments(summary_results, issues)

EvaluateTrade ==
    /\ pc = "idle"
    /\ \E summary_results \in Summaries \cup SparseSummaries :
           /\ pc' = "done"
           /\ op' = "evaluate_trade"
           /\ args' = [summary_results |-> summary_results]
           /\ ret' = evaluate_trade(summary_results)

Return ==
    /\ pc # "idle"
    /\ pc' = "idle"
    /\ op' = "none"
    /\ args' = <<>>
    /\ ret' = <<>>

Next ==
    \/ CalculateTotalReturnLeg
    \/ CalculateFundingLeg
    \/ LegacyCalculateFundingLeg
    \/ CalculateCashFlows
    \/ LegacyCalculateCashFlows
    \/ CalculateNpv
    \/ CalculateMarkedToMarketValue
    \/ LegacyCalculateMarkedToMarketValue
    \/ CalculateExposureMetrics
    \/ LegacyCalculateExposureMetrics
    \/ SimulatePricePaths
    \/ AggregateResults
    \/ GetUserInputs
    \/ RunSimulation
    \/ RunSimulationAgain
    \/ EvaluateMetric
    \/ CalculateVarScaleFactor
    \/ CalculateEpeScaleFactor
    \/ CalculateAdjustments
    \/ EvaluateTrade
    \/ Return

Spec == Init /\ [][Next]_vars


(***************************************************************************)
(* Properties.                                                             *)
(***************************************************************************)
Called(o) == pc = "done" /\ op = o

\* Comparison of finite rationals by cross-multiplication.
Below(a, b) == a.n * b.d < b.n * a.d

\* C1: the funding leg flow of every period, from either copy of the cash flow
\* calculator, is (effective_funding_rate / payment_frequency) * notional
\* whatever the two prices are: no depreciation is subtracted from it.
C1_FundingLegIsFixedPayment ==
    (Called("calculate_funding_leg") \/ Called("legacy_calculate_funding_leg"))
        => RMul(ret, RI(args.payment_frequency))
               = RMul(args.effective_funding_rate, args.notional)

\* The equations of one ledger row, multiplied out by start * frequency.
C2_RowHolds(row, params) ==
    LET f == RI(params.payment_frequency)
        start == row.period_start_price
        end == row.period_end_price
    IN  start # Zero =>
        /\ RMul(RMul(row.total_return_cash_flow, start), f)
              = RMul(RAdd(RMul(RSub(end, start), f),
                          RMul(params.dividend_yield, start)),
                     params.notional)
        /\ RAdd(row.net_cash_flow, row.total_return_cash_flow)
              = row.net_funding_cash_flow
        /\ (start = end /\ params.dividend_yield = Zero)
              => /\ row.total_return_cash_flow = Zero
                 /\ row.net_cash_flow = row.net_funding_cash_flow

RECURSIVE Horner(_, _)
Horner(flows, q) ==
    IF flows = <<>> THEN Zero
    ELSE RDiv(RAdd(Head(flows), Horner(Tail(flows), q)), q)

PeriodFactor(benchmark_rate, payment_frequency) ==
    R(benchmark_rate.d * payment_frequency + benchmark_rate.n,
      benchmark_rate.d * payment_frequency)

\* C3: calculate_npv returns the sum of net_cash_flow[k] * (1 + rate / freq)^(-k)
\* with k counted from 1; an empty ledger and an all-zero ledger give exactly 0.
C3_NpvIsDiscountedSum ==
    Called("calculate_npv")
        => /\ ret = Horner(args.cash_flows_series,
                           PeriodFactor(args.benchmark_rate, args.payment_frequency))
           /\ (\A k \in 1..Len(args.cash_flows_series) :
                   args.cash_flows_series[k] = Zero) => ret = Zero

C3_Witness ==
    /\ Called("calculate_npv")
    /\ Len(args.cash_flows_series) = MaxPeriods
    /\ \A k \in 1..Len(args.cash_flows_series) : args.cash_flows_series[k] = RI(50)
    /\ args.benchmark_rate # Zero
    /\ RLt(ret, RI(50 * MaxPeriods))
    /\ RLt(Zero, ret)

\* C4: the marked-to-market value at period p, from either copy of the
\* valuation engine, is the present value of the flows of periods p..n, the
\* flow of period p discounted once; at period 1 it is the NPV.
C4_MtmIncludesCurrentPeriod ==
    ((Called("calculate_marked_to_market_value")
        \/ Called("legacy_calculate_marked_to_market_value"))
     /\ args.current_period \in 1..Len(args.cash_flows_df))
        => LET flows == NetCashFlows(args.cash_flows_df)
               q == PeriodFactor(args.benchmark_rate, args.payment_frequency)
           IN  /\ ret = Horner(SubSeq(flows, args.current_period, Len(flows)), q)
               /\ args.current_period = 1 => ret = Horner(flows, q)

EqualLengths(list) == \A s \in 1..Len(list) : Len(list[s]) = Len(list[1])

PositivePart(x) == IF Below(x, Zero) THEN Zero ELSE x

PvFrom(df, p, params) ==
    Horner(SubSeq(NetCashFlows(df), p, Len(df)),
           PeriodFactor(params.benchmark_rate, params.payment_frequency))

CountBelow(v, x) == Cardinality({i \in 1..Len(v) : Below(v[i], x)})

CountAtMost(v, x) == Cardinality({i \in 1..Len(v) : ~Below(x, v[i])})

\* The k-th smallest entry of v, k counted from 1.
OrderStat(v, k) ==
    CHOOSE x \in Range(v) : CountBelow(v, x) < k /\ k <= CountAtMost(v, x)

\* P is the q-th percentile of v by linear interpolation: with h = q/100 *
\* (N - 1) and lo = floor(h), P = x(lo) + (h - lo) * (x(lo + 1) - x(lo)) over
\* the sorted entries counted from 0 (stated here multiplied by 100).
IsLinearPercentile(v, q, P) ==
    LET N == Len(v)
        lo == (q * (N - 1)) \div 100
        a == OrderStat(v, lo + 1)
        b == OrderStat(v, IF lo + 2 > N THEN N ELSE lo + 2)
    IN  RMul(RI(100), P)
            = RAdd(RMul(RI(100), a),
                   RMul(RI(q * (N - 1) - 100 * lo), RSub(b, a)))

SumOfSquares(v) == RSum([i \in 1..Len(v) |-> RMul(v[i], v[i])])

\* C6: aggregate_results reports the arithmetic mean of a non-empty NPV list, its
\* population standard deviation (N^2 * variance = N * sum of squares - square
\* of the sum) and the 5th, 25th, 50th, 75th and 95th percentiles by linear
\* interpolation between order statistics; for -100, 0, 50, 100, 200 the
\* median is 50 and the mean is 50.
C6_AggregateStatistics ==
    (Called("aggregate_results") /\ Len(args.npv_list) > 0)
        => LET v == args.npv_list
               N == Len(v)
           IN  /\ RMul(ret.npv_mean, RI(N)) = RSum(v)
               /\ RMul(ret.npv_std.sqrt_of, RI(N * N))
                     = RSub(RMul(RI(N), SumOfSquares(v)), RMul(RSum(v), RSum(v)))
               /\ DOMAIN ret.npv_percentiles = {"5th", "25th", "50th", "75th", "95th"}
               /\ \A q \in {5, 25, 50, 75, 95} :
                     IsLinearPercentile(v, q, ret.npv_percentiles[PercentileKey(q)])
               /\ (N = 5 /\ Range(v) = {RI(-100), Zero, RI(50), RI(100), RI(200)})
                     => /\ ret.npv_percentiles["50th"] = RI(50)
                        /\ ret.npv_mean = RI(50)

\* The list of the specification, unsorted: the median and the mean are 50, the
\* 5th percentile lies between the two smallest entries.
C6_Witness ==
    /\ Called("aggregate_results")
    /\ args.npv_list = <<RI(200), RI(-100), RI(50), Zero, RI(100)>>
    /\ ret.npv_percentiles["50th"] = RI(50)
    /\ ret.npv_mean = RI(50)
    /\ ret.npv_percentiles["5th"] = RI(-80)
    /\ ret.npv_std.sqrt_of = RI(10000)

\* C7: with a non-empty exposure profile, peak_epe of the summary is the
\* largest entry of epe_profile and peak_epe_period is the 1-based index of
\* the first entry that equals it.
C7_PeakIsFirstMaximum ==
    (Called("run_simulation") /\ Len(ret.summary_results.epe_profile) > 0)
        => LET s == ret.summary_results
               profile == s.epe_profile
           IN  /\ s.peak_epe_period \in 1..Len(profile)
               /\ profile[s.peak_epe_period] = s.peak_epe
               /\ \A i \in 1..Len(profile) : ~RLt(s.peak_epe, profile[i])
               /\ \A i \in 1..(s.peak_epe_period - 1) : profile[i] # s.peak_epe

\* A profile whose maximum is attained at two periods: the first is reported.
C7_Witness ==
    /\ Called("run_simulation")
    /\ LET s == ret.summary_results
       IN  /\ Len(s.epe_profile) >= 2
           /\ IsFinite(s.peak_epe)
           /\ \E i, j \in 1..Len(s.epe_profile) :
                 /\ i < j
                 /\ s.epe_profile[i] = s.peak_epe
                 /\ s.epe_profile[j] = s.peak_epe
                 /\ s.peak_epe_period = i

\* C8: simulate_price_paths returns num_simulations rows of
\* floor(tenor * payment_frequency) + 1 columns, column 0 of every row is the
\* initial price, and tenor 1 at frequency 4 gives 5 columns.
C8_GridShape ==
    Called("simulate_price_paths")
        => /\ Len(ret) = args.num_simulations
           /\ \A s \in 1..Len(ret) :
                 LET n == Len(ret[s]) - 1
                 IN  /\ n * args.tenor.d <= args.tenor.n * args.payment_frequency
                     /\ args.tenor.n * args.payment_frequency < (n + 1) * args.tenor.d
                     /\ ret[s][1] = args.initial_price
                     /\ (args.tenor = One /\ args.payment_frequency = 4) => n + 1 = 5

\* One year of quarterly periods: 5 columns, the first the initial price.
C8_Witness ==
    /\ Called("simulate_price_paths")
    /\ args.tenor = One
    /\ args.payment_frequency = 4
    /\ Len(ret) = 1
    /\ Len(ret[1]) = 5
    /\ ret[1][1] = args.initial_price
    /\ ret[1][5] # args.initial_price

\* C9: every entry of the price grid that run_simulation hands to the cash
\* flow calculator is strictly positive, whether the initial price was given
\* as an override or fetched.
C9_GridIsPositive ==
    Called("run_simulation")
        => \A s \in 1..Len(ret.price_paths) : \A t \in 1..Len(ret.price_paths[s]) :
              RLt(Zero, ret.price_paths[s][t])

\* C10: when threshold_green > threshold_yellow a value is green iff it is at
\* least threshold_green, yellow iff below that and at least threshold_yellow,
\* red iff below threshold_yellow; otherwise green iff at most threshold_green,
\* yellow iff above that and at most threshold_yellow, red iff above
\* threshold_yellow.
C10_EvaluateMetricRules ==
    Called("evaluate_metric")
        => LET v == args.value
               g == args.threshold_green
               y == args.threshold_yellow
           IN  /\ ret \in {"green", "yellow", "red"}
               /\ IF Below(y, g)
                  THEN /\ ret = "green" <=> ~Below(v, g)
                       /\ ret = "yellow" <=> (Below(v, g) /\ ~Below(v, y))
                       /\ ret = "red" <=> Below(v, y)
                  ELSE /\ ret = "green" <=> ~Below(g, v)
                       /\ ret = "yellow" <=> (Below(g, v) /\ ~Below(y, v))
                       /\ ret = "red" <=> Below(y, v)

\* A value equal to the yellow threshold of a lower-is-better metric is yellow.
C10_Witness ==
    /\ Called("evaluate_metric")
    /\ Below(args.threshold_green, args.threshold_yellow)
    /\ args.value = args.threshold_yellow
    /\ ret = "yellow"

\* The keys the decision engine reads from a summary.
SUMMARY_KEYS ==
    {"notional", "tenor", "volatility", "funding_spread", "npv_mean",
     "npv_percentiles", "peak_epe"}

IsFullSummary(x) == SUMMARY_KEYS \subseteq DOMAIN x

\* C11: the overall status of evaluate_trade is the worst of the three metric
\* statuses: red if any is red, else yellow if any is yellow, else green.
C11_OverallIsWorst ==
    Called("evaluate_trade")
        => LET st == {ret.statuses.npv, ret.statuses.var, ret.statuses.epe}
           IN  ret.overall_status
                   = IF "red" \in st THEN "red"
                     ELSE IF "yellow" \in st THEN "yellow" ELSE "green"

\* A green NPV, a yellow VaR and a red EPE: the overall status is red.
C11_Witness ==
    /\ Called("evaluate_trade")
    /\ ret.statuses.npv = "green"
    /\ ret.statuses.var = "yellow"
    /\ ret.statuses.epe = "red"
    /\ ret.overall_status = "red"

\* C12: issues holds npv_too_low, var_too_high, epe_too_high exactly for the
\* metrics that are not green; it is empty exactly when the overall status is
\* green, and then adjustments is empty; an adjustment is present only for an
\* issue of the list, also when calculate_adjustments is called on its own.
C12_IssuesFollowStatuses ==
    /\ Called("evaluate_trade")
          => /\ ret.issues
                    = (IF ret.statuses.npv # "green" THEN <<"npv_too_low">> ELSE <<>>)
                      \o (IF ret.statuses.var # "green" THEN <<"var_too_high">> ELSE <<>>)
                      \o (IF ret.statuses.epe # "green" THEN <<"epe_too_high">> ELSE <<>>)
             /\ (ret.issues = <<>>) <=> (ret.overall_status = "green")
             /\ (ret.overall_status = "green") => (DOMAIN ret.adjustments = {})
             /\ ("spread_adjustment" \in DOMAIN ret.adjustments)
                    => ret.statuses.npv # "green"
             /\ ("notional_reduction" \in DOMAIN ret.adjustments)
                    => ret.statuses.var # "green"
             /\ ("collateral_requirement" \in DOMAIN ret.adjustments)
                    => ret.statuses.epe # "green"
    /\ Called("calculate_adjustments")
          => /\ ("spread_adjustment" \in DOMAIN ret) => Has(args.issues, "npv_too_low")
             /\ ("notional_reduction" \in DOMAIN ret) => Has(args.issues, "var_too_high")
             /\ ("collateral_requirement" \in DOMAIN ret)
                    => Has(args.issues, "epe_too_high")

\* The trade of the specification: an NPV of 1.2% of the notional at the
\* baseline volatility and tenor, VaR and EPE within their green thresholds.
C12_Witness ==
    /\ Called("evaluate_trade")
    /\ IsFullSummary(args.summary_results)
    /\ args.summary_results.volatility = R(1, 4)
    /\ args.summary_results.tenor = One
    /\ ret.metrics.npv_pct = R(12, 1000)
    /\ ret.overall_status = "green"
    /\ ret.issues = <<>>
    /\ DOMAIN ret.adjustments = {}

\* C13: for a summary with notional > 0 and tenor > 0 whose NPV status is not
\* green, evaluate_trade returns a spread_adjustment whose delta_bps is
\* (0.01 * notional - npv_mean) / (notional * tenor) * 10000 (stated multiplied
\* out), strictly positive, with new_spread = max(0, funding_spread +
\* delta_bps / 10000).
C13_SpreadAdjustment ==
    (Called("evaluate_trade") /\ IsFullSummary(args.summary_results))
        => LET x == args.summary_results
           IN  (Below(Zero, x.notional) /\ Below(Zero, x.tenor)
                    /\ ret.statuses.npv \in {"yellow", "red"})
                 => /\ "spread_adjustment" \in DOMAIN ret.adjustments
                    /\ LET adj == ret.adjustments["spread_adjustment"]
                           sum == RAdd(x.funding_spread, RDiv(adj.delta_bps, RI(10000)))
                       IN  /\ RMul(adj.delta_bps, RMul(x.notional, x.tenor))
                                 = RMul(RSub(RMul(R(1, 100), x.notional), x.npv_mean),
                                        RI(10000))
                           /\ Below(Zero, adj.delta_bps)
                           /\ adj.new_spread = IF Below(sum, Zero) THEN Zero ELSE sum

\* The trade of the specification: an NPV of 0.3% of the notional is red, and
\* over a tenor of 4 years the spread rises by 17.5 basis points.
C13_Witness ==
    /\ Called("evaluate_trade")
    /\ IsFullSummary(args.summary_results)
    /\ ret.metrics.npv_pct = R(3, 1000)
    /\ args.summary_results.tenor = RI(4)
    /\ args.summary_results.funding_spread = R(1, 50)
    /\ ret.statuses.npv = "red"
    /\ ret.overall_status = "red"
    /\ Has(ret.issues, "npv_too_low")
    /\ "spread_adjustment" \in DOMAIN ret.adjustments
    /\ ret.adjustments["spread_adjustment"].delta_bps = R(35, 2)
    /\ ret.adjustments["spread_adjustment"].new_spread = R(87, 4000)

\* x clamped into [lo, hi], for finite rationals.
Clamp(x, lo, hi) == IF Below(x, lo) THEN lo ELSE IF Below(hi, x) THEN hi ELSE x

\* The current VaR amount of a full summary: |5th percentile| when the
\* notional is positive (var_pct * notional), 0 otherwise.
CurrentVar(x) ==
    IF Below(Zero, x.notional) THEN RAbs(x.npv_percentiles["5th"]) ELSE Zero

\* C14: when calculate_adjustments is called with var_too_high among the issues
\* and the current VaR amount is positive, notional_reduction has reduction_pct
\* = (current VaR - scaled green VaR threshold * notional) / current VaR * 100
\* clamped into [0, 100] and new_notional = notional * (1 - reduction_pct / 100)
\* for that reported reduction_pct, so new_notional is at most the notional.
C14_NotionalReduction ==
    (Called("calculate_adjustments") /\ IsFullSummary(args.summary_results)
     /\ Has(args.issues, "var_too_high")
     /\ Below(Zero, CurrentVar(args.summary_results)))
        => LET x == args.summary_results
               current == CurrentVar(x)
               target == RMul(RMul(DECISION_VAR_GREEN_THRESHOLD,
                                   calculate_var_scale_factor(x.volatility, x.tenor)),
                              x.notional)
               pct == Clamp(RMul(RDiv(RSub(current, target), current), RI(100)),
                            Zero, RI(100))
           IN  /\ "notional_reduction" \in DOMAIN ret
               /\ ret["notional_reduction"].reduction_pct = pct
               /\ ret["notional_reduction"].new_notional
                     = RMul(x.notional, RSub(One, RDiv(pct, RI(100))))
               /\ ~Below(x.notional, ret["notional_reduction"].new_notional)

\* C15: when calculate_adjustments is called with epe_too_high among the issues
\* and the notional is positive, collateral_requirement has collateral_pct =
\* max(0, (peak EPE - scaled green EPE threshold * notional) / notional * 100)
\* and collateral_amount = notional * collateral_pct / 100 for that reported
\* collateral_pct.
C15_CollateralRequirement ==
    (Called("calculate_adjustments") /\ IsFullSummary(args.summary_results)
     /\ Has(args.issues, "epe_too_high")
     /\ Below(Zero, args.summary_results.notional))
        => LET x == args.summary_results
               target == RMul(RMul(DECISION_EPE_GREEN_THRESHOLD,
                                   calculate_epe_scale_factor(x.volatility, x.tenor)),
                              x.notional)
               raw == RMul(RDiv(RSub(x.peak_epe, target), x.notional), RI(100))
               pct == IF Below(raw, Zero) THEN Zero ELSE raw
           IN  /\ "collateral_requirement" \in DOMAIN ret
               /\ ret["collateral_requirement"].collateral_pct = pct
               /\ ret["collateral_requirement"].collateral_amount
                     = RDiv(RMul(x.notional, pct), RI(100))

\* A peak EPE of 15% of the notional at the baseline terms: 5% collateral, 50
\* on a notional of 1000.
C15_Witness ==
    /\ Called("calculate_adjustments")
    /\ IsFullSummary(args.summary_results)
    /\ Has(args.issues, "epe_too_high")
    /\ args.summary_results.volatility = R(1, 4)
    /\ args.summary_results.tenor = One
    /\ args.summary_results.peak_epe = RI(150)
    /\ "collateral_requirement" \in DOMAIN ret
    /\ ret["collateral_requirement"].collateral_pct = RI(5)
    /\ ret["collateral_requirement"].collateral_amount = RI(50)

\* The scale factor the specification states: raw clamped into [0.5, 4.0].
ClampScale(raw) ==
    IF Less(raw, MIN_SCALE) THEN MIN_SCALE
    ELSE IF Less(MAX_SCALE, raw) THEN MAX_SCALE ELSE raw

\* C16: for volatility >= 0 and tenor >= 0 the VaR scale factor is
\* (volatility / 0.25) * sqrt(tenor) and the EPE scale factor is
\* (volatility / 0.25) * tenor^0.7, each clamped into [0.5, 4.0] and exactly 1
\* at the baseline (0.25, 1); evaluate_trade uses base threshold * factor for
\* the VaR and EPE thresholds and leaves the NPV thresholds unscaled.
C16_ScaleFactors ==
    /\ Called("calculate_var_scale_factor") =>
           /\ ret = ClampScale(Scaled(RDiv(args.volatility, R(1, 4)),
                                      PowFrac(args.tenor, 1, 2)))
           /\ ~Less(ret, R(1, 2)) /\ ~Less(RI(4), ret)
           /\ (args.volatility = R(1, 4) /\ args.tenor = One) => ret = One
    /\ Called("calculate_epe_scale_factor") =>
           /\ ret = ClampScale(Scaled(RDiv(args.volatility, R(1, 4)),
                                      PowFrac(args.tenor, 7, 10)))
           /\ ~Less(ret, R(1, 2)) /\ ~Less(RI(4), ret)
           /\ (args.volatility = R(1, 4) /\ args.tenor = One) => ret = One
    /\ (Called("evaluate_trade") /\ IsFullSummary(args.summary_results)) =>
           LET x == args.summary_results
               var == ClampScale(Scaled(RDiv(x.volatility, R(1, 4)),
                                        PowFrac(x.tenor, 1, 2)))
               epe == ClampScale(Scaled(RDiv(x.volatility, R(1, 4)),
                                        PowFrac(x.tenor, 7, 10)))
           IN  /\ ret.volatility_info.var_scale_factor = var
               /\ ret.volatility_info.epe_scale_factor = epe
               /\ ret.thresholds.var = [green |-> RMul(R(2, 5), var),
                                        yellow |-> RMul(R(11, 20), var)]
               /\ ret.thresholds.epe = [green |-> RMul(R(1, 10), epe),
                                        yellow |-> RMul(R(1, 5), epe)]
               /\ ret.thresholds.npv = [green |-> R(1, 100), yellow |-> R(1, 200)]
               /\ ret.statuses.var = evaluate_metric(ret.metrics.var_pct,
                                         RMul(R(2, 5), var), RMul(R(11, 20), var))
               /\ ret.statuses.epe = evaluate_metric(ret.metrics.epe_pct,
                                         RMul(R(1, 10), epe), RMul(R(1, 5), epe))
               /\ ret.statuses.npv = evaluate_metric(ret.metrics.npv_pct,
                                         R(1, 100), R(1, 200))

\* A trade at volatility 1 over 4 years: both factors clamp to 4, the green VaR
\* threshold is 1.6 and a VaR of 50% of the notional is green.
C16_Witness ==
    /\ Called("evaluate_trade")
    /\ IsFullSummary(args.summary_results)
    /\ args.summary_results.volatility = One
    /\ args.summary_results.tenor = RI(4)
    /\ args.summary_results.npv_percentiles["5th"] = RI(-500)
    /\ ret.volatility_info.var_scale_factor = RI(4)
    /\ ret.thresholds.var.green = R(8, 5)
    /\ ret.thresholds.epe.yellow = R(4, 5)
    /\ ret.statuses.var = "green"

\* C17: every record get_user_inputs returns has notional > 0, tenor > 0,
\* integer payment_frequency >= 1 and num_simulations >= 1, initial_price > 0,
\* dividend_yield >= 0, volatility > 0, benchmark_rate >= 0, funding_spread >= 0
\* and effective_funding_rate = benchmark_rate + funding_spread, whether a field
\* was given (0.5 for a count included) or fetched.
C17_ResolvedInputsAreValid ==
    Called("get_user_inputs") =>
        /\ Below(Zero, ret.notional)
        /\ Below(Zero, ret.tenor)
        /\ ret.payment_frequency \in Nat /\ ret.payment_frequency >= 1
        /\ ret.num_simulations \in Nat /\ ret.num_simulations >= 1
        /\ Below(Zero, ret.initial_price)
        /\ ~Below(ret.dividend_yield, Zero)
        /\ Below(Zero, ret.volatility)
        /\ ~Below(ret.benchmark_rate, Zero)
        /\ ~Below(ret.funding_spread, Zero)
        /\ ret.effective_funding_rate = RAdd(ret.benchmark_rate, ret.funding_spread)

\* An argument of simulate_price_paths that the specification calls invalid.
InvalidSimulationArgs ==
    \/ ~Below(Zero, args.initial_price)
    \/ ~Below(Zero, args.volatility)
    \/ ~Below(Zero, args.tenor)
    \/ args.payment_frequency <= 0
    \/ args.num_simulations <= 0

\* C18: a call of simulate_price_paths with initial_price <= 0, volatility <= 0,
\* tenor <= 0, payment_frequency <= 0 or num_simulations <= 0 fails with an
\* error and returns no array.
C18_InvalidInputsAreRejected ==
    (op = "simulate_price_paths" /\ InvalidSimulationArgs) => pc = "error"

\* A period start price (any column but the last) of the grid that is <= 0.
HasNonPositiveStart(price_paths) ==
    \E s \in 1..Len(price_paths) : \E i \in 1..(Len(price_paths[s]) - 1) :
        ~Below(Zero, price_paths[s][i])

\* C19: calculate_cash_flows on a grid with a period start price <= 0 raises an
\* error and returns no ledger.
C19_NonPositiveStartIsRejected ==
    (op = "calculate_cash_flows" /\ HasNonPositiveStart(args.price_paths))
        => pc = "error"

\* C20: with zero paths (an empty ledger list and an empty NPV list)
\* calculate_exposure_metrics and aggregate_results fail with an error: neither
\* returns an empty profile, nan statistics or zero totals.
C20_ZeroPathsAreRejected ==
    /\ (op = "calculate_exposure_metrics" /\ args.cash_flows_list = <<>>)
           => pc = "error"
    /\ (op = "aggregate_results" /\ args.all_simulated_cash_flows = <<>>
        /\ args.npv_list = <<>>)
           => pc = "error"

\* C21: when the ledgers passed to calculate_exposure_metrics or to
\* aggregate_results do not all have the number of periods of the first one,
\* the call fails with an error.
C21_MismatchedLengthsAreRejected ==
    /\ (op = "calculate_exposure_metrics" /\ ~EqualLengths(args.cash_flows_list))
           => pc = "error"
    /\ (op = "aggregate_results" /\ ~EqualLengths(args.all_simulated_cash_flows))
           => pc = "error"

\* C22: a run of run_simulation that follows another with identical inputs,
\* later in the same process, returns the same price grid, the same ledgers and
\* the same summary, epe_dates included.
C22_RepeatedRunIsIdentical ==
    [][(/\ pc = "done" /\ op = "run_simulation"
        /\ pc' = "done" /\ op' = "run_simulation"
        /\ args'.params = args.params /\ args'.fetched = args.fetched)
          => /\ ret'.price_paths = ret.price_paths
             /\ ret'.cash_flows_list = ret.cash_flows_list
             /\ ret'.summary_results = ret.summary_results]_vars

POSITIVE_FIELDS ==
    {"notional", "tenor", "payment_frequency", "num_simulations", "initial_price",
     "volatility"}

\* The fields of a request that are missing though required, present with a
\* non-positive value though they must be positive, or a desk_position that is
\* neither payer nor receiver.
OffendingFields(params) ==
    (REQUIRED \ DOMAIN params)
    \cup {k \in POSITIVE_FIELDS \cap DOMAIN params : ~Below(Zero, params[k])}
    \cup {k \in {"desk_position"} \cap DOMAIN params :
             params[k] \notin {"payer", "receiver"}}

OtherDesk(params) ==
    [k \in DOMAIN params \cup {"desk_position"} |->
        IF k # "desk_position" THEN params[k]
        ELSE IF desk_position_of(params) = "payer" THEN "receiver" ELSE "payer"]

\* C24: the run of the same request with the other desk_position, on the same
\* random shocks, has the same price grid, the same ledgers, the same path NPVs
\* and the same summary.
C24_DeskPositionIsNotPriced ==
    Called("run_simulation")
        => LET other == run_simulation(OtherDesk(args.params), args.fetched,
                                       args.growth, args.now)
           IN  /\ get_user_inputs_raises(OtherDesk(args.params)) = None
               /\ other.price_paths = ret.price_paths
               /\ other.cash_flows_list = ret.cash_flows_list
               /\ other.npv_list = ret.npv_list
               /\ other.summary_results = ret.summary_results

\* A payer run with a funding flow in its ledger, priced as the receiver run.
C24_Witness ==
    /\ Called("run_simulation")
    /\ desk_position_of(args.params) = "payer"
    /\ Len(ret.cash_flows_list) > 0
    /\ Len(ret.cash_flows_list[1]) > 0
    /\ ret.cash_flows_list[1][1].net_funding_cash_flow # Zero
    /\ desk_position_of(OtherDesk(args.params)) = "receiver"
    /\ ret.summary_results
          = run_simulation(OtherDesk(args.params), args.fetched, args.growth,
                           args.now).summary_results

\* C25: for a non-empty list of ledgers of n >= 1 periods the exposure output,
\* from either copy of the valuation engine, has n profile entries and n dates,
\* and epe_dates[p] is the offset of period p in years, p / payment_frequency,
\* whatever the wall clock reads when the call is made.
C25_DatesAreYearOffsets ==
    /\ (Called("calculate_exposure_metrics") /\ Len(args.cash_flows_list) > 0
        /\ EqualLengths(args.cash_flows_list) /\ Len(args.cash_flows_list[1]) >= 1)
           => LET n == Len(args.cash_flows_list[1])
              IN  /\ Len(ret.epe_profile) = n
                  /\ Len(ret.dates) = n
                  /\ \A p \in 1..n : ret.dates[p] * args.params.payment_frequency = p
                  /\ ret.dates = calculate_exposure_metrics(args.cash_flows_list,
                                     args.params, 0).dates
    /\ (Called("legacy_calculate_exposure_metrics") /\ Len(args.cash_flows_list) > 0
        /\ EqualLengths(args.cash_flows_list) /\ Len(args.cash_flows_list[1]) >= 1)
           => LET n == Len(args.cash_flows_list[1])
              IN  /\ Len(ret.epe_profile) = n
                  /\ Len(ret.dates) = n
                  /\ \A p \in 1..n :
                        ret.dates[p] = RDiv(RI(p), RI(args.params.payment_frequency))

\* The status of a value under an explicit direction tag.
TaggedStatus(higher_is_better, v, g, y) ==
    IF higher_is_better
    THEN IF ~Below(v, g) THEN "green" ELSE IF ~Below(v, y) THEN "yellow" ELSE "red"
    ELSE IF ~Below(g, v) THEN "green" ELSE IF ~Below(y, v) THEN "yellow" ELSE "red"

\* C26: for a positive volatility and a positive tenor the thresholds of
\* evaluate_trade have green > yellow for NPV and green < yellow for VaR and
\* EPE, and each status is the one an explicit direction tag gives: higher is
\* better for NPV, lower is better for VaR and EPE.
C26_DirectionIsFixed ==
    (Called("evaluate_trade") /\ IsFullSummary(args.summary_results)
     /\ Below(Zero, args.summary_results.volatility)
     /\ Below(Zero, args.summary_results.tenor))
        => LET t == ret.thresholds
               m == ret.metrics
           IN  /\ Below(t.npv.yellow, t.npv.green)
               /\ Below(t.var.green, t.var.yellow)
               /\ Below(t.epe.green, t.epe.yellow)
               /\ ret.statuses.npv
                     = TaggedStatus(TRUE, m.npv_pct, t.npv.green, t.npv.yellow)
               /\ ret.statuses.var
                     = TaggedStatus(FALSE, m.var_pct, t.var.green, t.var.yellow)
               /\ ret.statuses.epe
                     = TaggedStatus(FALSE, m.epe_pct, t.epe.green, t.epe.yellow)

\* Volatility 1 over 4 years: VaR thresholds 1.6 < 2.2, and a VaR of 250% of
\* the notional is red while an NPV of 1.2% is green.
C26_Witness ==
    /\ Called("evaluate_trade")
    /\ IsFullSummary(args.summary_results)
    /\ args.summary_results.volatility = One
    /\ args.summary_results.tenor = RI(4)
    /\ ret.thresholds.var = [green |-> R(8, 5), yellow |-> R(11, 5)]
    /\ ret.metrics.var_pct = R(5, 2)
    /\ ret.statuses.var = "red"
    /\ ret.metrics.npv_pct = R(3, 250)
    /\ ret.statuses.npv = "green"

\* The period index of the k-th record of a ledger: its period column, or,
\* for a ledger built without one, the row label pandas gives it (from 0).
PeriodIndex(cash_flows_df, k) ==
    IF "period" \in DOMAIN cash_flows_df[k]
    THEN cash_flows_df[k].period
    ELSE k - 1

\* C27: for a grid of N paths and n + 1 columns, calculate_cash_flows (either
\* copy) returns N ledgers in path order, each of n records with period
\* indices 1, 2, ..., n; the start price of period 1 is the path's first
\* price and the start price of every later period is the end price of the
\* period before it.
C27_LedgersFollowTheGrid ==
    (pc = "done" /\ op \in {"calculate_cash_flows", "legacy_calculate_cash_flows"})
        => LET N == Len(args.price_paths)
               n == Len(args.price_paths[1]) - 1
           IN  /\ Len(ret) = N
               /\ \A s \in 1..N :
                     /\ Len(ret[s]) = n
                     /\ \A k \in 1..n :
                           /\ PeriodIndex(ret[s], k) = k
                           /\ k = 1 => ret[s][k].period_start_price
                                           = args.price_paths[s][1]
                           /\ k > 1 => ret[s][k].period_start_price
                                           = ret[s][k - 1].period_end_price

\* C28: in every summary of run_simulation with at least one path and at
\* least one period, peak_epe >= max(0, npv_mean).
C28_PeakCoversMeanNpv ==
    (Called("run_simulation") /\ Len(ret.cash_flows_list) >= 1
     /\ Len(ret.cash_flows_list[1]) >= 1)
        => LET s == ret.summary_results
           IN  RGe(s.peak_epe, IF RGt(s.npv_mean, Zero) THEN s.npv_mean ELSE Zero)

\* C29: an accepted request with tenor * payment_frequency < 1 has no period
\* and run_simulation does not fail on it: the grid has one column, every
\* ledger is empty, every path NPV is 0, the exposure profile is empty, and
\* the summary has npv_mean = 0, npv_std = 0, peak_epe = 0 and
\* peak_epe_period = 0.
C29_ZeroPeriodsGiveEmptyRun ==
    (/\ op = "run_simulation"
     /\ pc \in {"done", "error"}
     /\ get_user_inputs_raises(args.params) = None
     /\ LET r == get_user_inputs(args.params, args.fetched)
        IN  RLt(RMul(r.tenor, RI(r.payment_frequency)), One))
        => /\ pc = "done"
           /\ \A s \in 1..Len(ret.price_paths) : Len(ret.price_paths[s]) = 1
           /\ \A s \in 1..Len(ret.cash_flows_list) : ret.cash_flows_list[s] = <<>>
           /\ \A s \in 1..Len(ret.npv_list) : ret.npv_list[s] = Zero
           /\ ret.summary_results.epe_profile = <<>>
           /\ ret.summary_results.npv_mean = Zero
           /\ ret.summary_results.npv_std = Sqrt(Zero)
           /\ ret.summary_results.peak_epe = Zero
           /\ ret.summary_results.peak_epe_period = 0

\* The price grid a list of non-empty ledgers was computed from.
GridOf(ledgers) ==
    [s \in 1..Len(ledgers) |->
        <<ledgers[s][1].period_start_price>>
            \o [k \in 1..Len(ledgers[s]) |-> ledgers[s][k].period_end_price]]

\* The terms under which calculate_cash_flows produces the given ledgers.
ProducedWith(ledgers) ==
    {t \in TermsSet :
        /\ Len(ledgers) > 0
        /\ Len(ledgers[1]) > 0
        /\ "period_start_price" \in DOMAIN ledgers[1][1]
        /\ ledgers = calculate_cash_flows(GridOf(ledgers), t)}

\* a == b on floats: false when either side is nan.
FloatEq(a, b) == ~IsNaN(a) /\ ~IsNaN(b) /\ a = b

\* C30: for ledgers produced by calculate_cash_flows, the aggregates of
\* aggregate_results satisfy sum(mean_periodic_net_cash_flows)
\* = funding_leg_total - total_return_leg_total, and funding_leg_total
\* = num_periods * (effective_funding_rate / payment_frequency) * notional.
C30_AggregatesAddUp ==
    Called("aggregate_results")
        => \A t \in ProducedWith(args.all_simulated_cash_flows) :
              LET num_periods == Len(args.all_simulated_cash_flows[1])
              IN  /\ FloatEq(RSum(ret.mean_periodic_net_cash_flows),
                             RSub(ret.funding_leg_total,
                                  ret.total_return_leg_total))
                  /\ FloatEq(ret.funding_leg_total,
                             RMul(RI(num_periods),
                                  RMul(RDiv(t.effective_funding_rate,
                                            RI(t.payment_frequency)),
                                       t.notional)))

====
